---------------------------- MODULE Spec2Model ----------------------------
(***************************************************************************)
(* CloudRAMSaaS backend.                                                   *)
(*                                                                         *)
(*   - Instance lifecycle controller: src/main.py (FastAPI endpoints) and   *)
(*     src/aws_manager.py (AWSManager, the EC2 calls).                      *)
(*   - Remote agent: src/vm_scripts/vm_server.py (Flask endpoints and the   *)
(*     setup_vscode worker threads).                                        *)
(*                                                                         *)
(* Every endpoint of src/main.py is an `async def` that never awaits: it    *)
(* runs to completion on the event loop, so one request is one action.      *)
(* What the provisioning backend does while a handler blocks in a wait is   *)
(* a nondeterministic outcome of that action; POST /start_vm is also given  *)
(* step by step, one pass of a wait loop per step, with the backend and the *)
(* agent moving in between.  The agent runs Flask with                      *)
(* threaded=True and one daemon thread per setup job, so there each         *)
(* statement of the worker that writes the job table is a step of its own.  *)
(***************************************************************************)
EXTENDS Integers, Sequences, FiniteSets, TLC

----------------------------------------------------------------------------
(* Bounds and input domains *)

\* number of instance ids the provisioning backend can hand out
MaxInstances == 2

\* LaunchTime values the backend reports (ties are possible)
MaxLaunchTime == 2

InstanceIds == 1..MaxInstances

\* user.get("id") of the verified token (a payload without id, "", is answered
\* 401 before anything else happens and is left out of the requests explored)
UserIds == {"u1", "u2"}

\* the absent value (Python None) of an instance id
None == 0

\* the last second the clock reaches while migrations start; it starts at 1
MaxClock == 2

\* migrations and setup requests made one after the other
MaxRuns == 2

\* migrations and setup requests made while the workers of the agent run
MaxPolledRuns == 1

\* number of setup jobs the agent accepts in one run
MaxJobs == 2

\* POST /start_vm requests followed step by step
MaxStarts == 1

\* archives unpacked one after the other
MaxUnpacks == 2

\* export archives the agent has uploaded
MaxExports == 2

\* modification times of files and objects, 1..MaxTime
MaxTime == 2

\* calls of the tracked-file operations made on the calling thread
MaxCalls == 2

\* passes of the periodic sync
MaxPasses == 1

\* file events of one editor session, and the seconds it lasts
MaxStormEvents == 3

MaxNow == 3

\* saves of one editor session
MaxSaves == 2

\* calls of start_notepad_auto_sync by itself that find the flag unset
MaxWatcherStarts == 3

\* seconds one describe_instances call can take on top of the sleep
MaxLatency == 1

\* the VM_API_KEY environment of the agent; NoHeader is an unset variable
\* (os.getenv gives None), "" a variable set to nothing
NoHeader == "<none>"

ApiKeyConfigs == {NoHeader, "", "k1"}

\* the X-VM-API-KEY header of a request; NoHeader is a request without it
Headers == {NoHeader, "k1", "k2"}

\* objects of the notepad bucket, and the same names as files of SYNCED_DIR
Files == {"a.txt"}

\* process ids tasklist can report for the launched editor
Pids == {4711}

VARIABLES
    instances,      \* EC2: instance id -> [owner, state, ip, launch]
    lastAlloc,      \* per user: the instance the last successful allocate returned,
                    \*   forgotten at the next stop or terminate request
    resp,           \* response of the control-plane request handled by the last step
    VM_API_KEY,     \* agent: the configured shared secret
    vscode_jobs,    \* agent: job_id -> [status, message, finished_at]
    threads,        \* agent: the worker threads, in the order setup_vscode started them
    deps_freeze,    \* agent: downloads\deps_freeze.txt, None or the job that wrote it
    running_tasks,  \* agent: keys of the running_tasks dict
    processes,      \* agent: live editor processes
    synced_dir,     \* agent: files of SYNCED_DIR
    uploaded,       \* agent: objects the agent put into the notepad bucket
    exports,        \* agent: export archives the agent put into the VSCode bucket
    agResp,         \* response of the agent request handled by the last step
    runs,           \* the migrations and setup requests made so far, oldest first
    clock,          \* time.time() in whole seconds
    dep_call,       \* one call of _make_dep_bundle: what it found and what it returned
    st,             \* one POST /start_vm request on its way through the handler
    fcall,          \* archives unpacked so far: what was there, what went in, what came out
    tracked_files,  \* local machine: ProcessManager.tracked_files
    file_record,    \* local machine: the lines of notepad_file_paths.txt
    local_files,    \* local machine: path -> modification time, Absent for no file
    s3_objects,     \* notepad bucket: key -> LastModified, Absent for no object
    thr,            \* local machine: the calling thread and the periodic sync thread
    handler         \* local machine: the file watcher and its event handler

lcVars == <<instances, lastAlloc, resp>>

agState == <<vscode_jobs, threads, deps_freeze, running_tasks, processes, synced_dir,
             uploaded, exports>>

agVars == <<VM_API_KEY, vscode_jobs, threads, deps_freeze, running_tasks, processes,
            synced_dir, uploaded, exports, agResp>>

\* the callers of the agent: the migration engine and the control plane's waits
engVars == <<runs, clock, dep_call>>

\* the state of the file-handling calls followed on their own
syncVars == <<tracked_files, file_record, local_files, s3_objects, thr, handler>>

localVars == <<fcall, syncVars>>

offAgent == <<lcVars, engVars, st, localVars>>

offLifecycle == <<agVars, engVars, st, localVars>>

vars == <<instances, lastAlloc, resp, VM_API_KEY, vscode_jobs, threads, deps_freeze,
          running_tasks, processes, synced_dir, uploaded, exports, agResp,
          runs, clock, dep_call, st, fcall,
          tracked_files, file_record, local_files, s3_objects, thr, handler>>

----------------------------------------------------------------------------
(* The provisioning backend (EC2) as seen through AWSManager *)

NoInstance == [owner |-> "", state |-> "none", ip |-> FALSE, launch |-> 0]

\* the states the instance-state-name filter of find_user_instance lets through
NonTerminal == {"pending", "running", "stopping", "stopped"}

\* instances describe_instances returns for the tag and state filters
Matching(insts, user_id) ==
    {i \in InstanceIds : insts[i].owner = user_id /\ insts[i].state \in NonTerminal}

\* The set of values find_user_instance can return.  describe_ok = FALSE is
\* describe_instances raising: the except clause returns None.  The sort by
\* LaunchTime is stable, so among equal launch times the backend's response
\* order decides.
find_user_instance(insts, user_id, describe_ok) ==
    IF user_id = "" THEN {None}
    ELSE IF ~describe_ok THEN {None}
    ELSE IF Matching(insts, user_id) = {} THEN {None}
    ELSE {i \in Matching(insts, user_id) :
            \A j \in Matching(insts, user_id) : insts[j].launch <= insts[i].launch}

\* Outcomes of wait_for_running_and_ip: while it polls, a pending instance may
\* come up and may be given an address.  It returns the address only after a
\* poll saw running with an address; any evolution can end in the timeout
\* (get_instance_state_and_ip swallows describe errors and the loop goes on).
wait_for_running_and_ip(insts, vm_id) ==
    LET cur == insts[vm_id]
        evolved ==
            IF cur.state \in {"pending", "running"}
            THEN {[insts EXCEPT ![vm_id].state = s, ![vm_id].ip = a] :
                    s \in (IF cur.state = "pending" THEN {"pending", "running"}
                                                    ELSE {"running"}),
                    a \in (IF cur.ip THEN {TRUE} ELSE BOOLEAN)}
            ELSE {insts}
    IN  {[insts |-> e, ok |-> TRUE] :
            e \in {x \in evolved : x[vm_id].state = "running" /\ x[vm_id].ip}}
        \cup {[insts |-> e, ok |-> FALSE] : e \in evolved}

\* a check that lets a request without the header through
require_api_key_header_optional(supplied) ==
    IF VM_API_KEY \in {NoHeader, ""} THEN FALSE
    ELSE supplied \notin {NoHeader, VM_API_KEY}

\* require_api_key: TRUE when the request is answered 401
require_api_key(supplied) ==
    IF VM_API_KEY \in {NoHeader, ""} THEN FALSE
    ELSE supplied # VM_API_KEY

NoAgResp ==
    [op |-> "none", supplied |-> NoHeader, code |-> 0, job_id |-> None,
     body |-> "none"]

AgResponse(op, supplied, code, job_id, body) ==
    [op |-> op, supplied |-> supplied, code |-> code, job_id |-> job_id, body |-> body]

\* the status of the agent's answer to GET /
home_status(supplied) == IF require_api_key(supplied) THEN 401 ELSE 200

\* a probe that takes any answer of the agent as success
ProbeAnswered(code) == code # 0

\* if r.status_code == 200
ProbeSucceeded(code) == code = 200

\* what the probes of wait_for_vm_services, sent without the key header, meet
\* until the budget is spent: an agent that never answers, or one that
\* answers every probe
ProbeAnswers == {0, home_status(NoHeader)}

\* the answer the agent gave to the probes of a wait, if it gave one
Probed(code) ==
    IF code = 0 THEN NoAgResp
    ELSE AgResponse("home", NoHeader, code, None,
                    IF code = 200 THEN "Cloud RAM VM API is running!" ELSE "Unauthorized")

\* wait_for_vm_services: some probe within the budget got a 200, or none did
wait_for_vm_services == {ProbeSucceeded(code) : code \in ProbeAnswers}

\* AWSManager.stop_vm: stop_instances, False when it raises
AWSManager_stop_vm(insts, vm_id) ==
    {[insts |-> insts, ok |-> FALSE]}
    \cup (IF vm_id \in InstanceIds /\ insts[vm_id].state \in {"running", "stopping", "stopped"}
          THEN {[insts |-> IF insts[vm_id].state = "running"
                           THEN [insts EXCEPT ![vm_id].state = "stopping"]
                           ELSE insts,
                 ok |-> TRUE]}
          ELSE {})

\* AWSManager.start_vm: start_instances, False when it raises
AWSManager_start_vm(insts, vm_id) ==
    {[insts |-> insts, ok |-> FALSE]}
    \cup (IF vm_id \in InstanceIds /\ insts[vm_id].state \in {"stopped", "pending", "running"}
          THEN {[insts |-> IF insts[vm_id].state = "stopped"
                           THEN [insts EXCEPT ![vm_id].state = "pending", ![vm_id].ip = FALSE]
                           ELSE insts,
                 ok |-> TRUE]}
          ELSE {})

\* AWSManager.terminate_vm: terminate_instances, False when it raises.  No call
\* of the program reads the launch time of a terminated instance; it is dropped.
AWSManager_terminate_vm(insts, vm_id) ==
    {[insts |-> insts, ok |-> FALSE]}
    \cup (IF vm_id \in InstanceIds /\ insts[vm_id].state # "none"
          THEN {[insts |-> [insts EXCEPT ![vm_id].state = "terminated", ![vm_id].ip = FALSE,
                                         ![vm_id].launch = 0],
                 ok |-> TRUE]}
          ELSE {})

FreeIds(insts) == {i \in InstanceIds : insts[i].state = "none"}

\* Outcomes of AWSManager.create_vm(ram_size, user_id): the instances afterwards,
\* the (vm_id, ip_address) it returns ((None, None) as vm_id = None) and the
\* mutating EC2 calls it made.
create_vm(insts, user_id) ==
    \* key pair, startup script, AMI or security group missing, or run_instances raised
    {[insts |-> insts, vm_id |-> None, ip |-> FALSE, calls |-> {}, probe |-> None]}
    \cup
    (IF FreeIds(insts) = {} THEN {}
     ELSE
       LET vm == CHOOSE i \in FreeIds(insts) : \A j \in FreeIds(insts) : i <= j
           launched == {[insts EXCEPT ![vm] = [owner |-> user_id, state |-> "pending",
                                               ip |-> FALSE, launch |-> t]] :
                          t \in 1..MaxLaunchTime}
       IN
       \* the instance_running waiter raised: caught by the outer except
       {[insts |-> l, vm_id |-> None, ip |-> FALSE, calls |-> {"run_instances"},
         probe |-> None] :
            l \in launched}
       \cup
       UNION {
         LET up == [l EXCEPT ![vm].state = "running"] IN
         UNION {
           IF ~w.ok
           THEN \* wait_for_running_and_ip raised: caught by the outer except
                {[insts |-> w.insts, vm_id |-> None, ip |-> FALSE,
                  calls |-> {"run_instances"}, probe |-> None]}
           ELSE
             UNION {
               IF ProbeSucceeded(code)
               THEN \* services ready
                    {[insts |-> w.insts, vm_id |-> vm, ip |-> TRUE,
                      calls |-> {"run_instances"}, probe |-> code]}
               ELSE \* services not ready: terminate_vm, its result is not looked at
                    {[insts |-> t.insts, vm_id |-> None, ip |-> FALSE,
                      calls |-> {"run_instances", "terminate_instances"},
                      probe |-> code] :
                         t \in AWSManager_terminate_vm(w.insts, vm)}
               : code \in ProbeAnswers}
           : w \in wait_for_running_and_ip(up, vm)}
         : l \in launched})

----------------------------------------------------------------------------
(* Responses of src/main.py *)

NoResp ==
    [op |-> "none", user |-> "", code |-> 0, vm_id |-> None, ip |-> FALSE,
     state |-> "none", action_required |-> FALSE, describe_ok |-> TRUE,
     found |-> None, calls |-> {}]

Response(op, user, code, vm_id, ip, state, ar, dok, found, calls) ==
    [op |-> op, user |-> user, code |-> code, vm_id |-> vm_id, ip |-> ip,
     state |-> state, action_required |-> ar, describe_ok |-> dok,
     found |-> found, calls |-> calls]

\* a stop or terminate request, by any user, ends every window of "two allocate
\* calls with no stop or terminate between them"
Forget == [u \in UserIds |-> None]

----------------------------------------------------------------------------
(* Endpoints of src/main.py *)

\* GET /my_vm
my_vm(user_id) ==
    /\ UNCHANGED offLifecycle
    /\ \E dok \in BOOLEAN : \E inst \in find_user_instance(instances, user_id, dok) :
        /\ resp' = IF user_id = ""
                   THEN Response("my_vm", user_id, 401, None, FALSE, "none", FALSE, dok, None, {})
                   ELSE IF inst = None
                   THEN Response("my_vm", user_id, 200, None, FALSE, "none", FALSE, dok, None, {})
                   ELSE Response("my_vm", user_id, 200, inst, instances[inst].ip,
                                 instances[inst].state, FALSE, dok, inst, {})
        /\ UNCHANGED <<instances, lastAlloc>>

\* the states in which allocate hands back the existing instance, when it has an address
ReusableStates == {"running", "pending"}

StoppedStatesNoStopping == {"stopped"}

\* the states in which allocate hands back the existing instance with action_required
StoppedStates == {"stopped", "stopping"}

\* POST /allocate
allocate_ram(user_id) ==
    /\ UNCHANGED <<VM_API_KEY, agState, engVars, st, localVars>>
    /\ \E dok \in BOOLEAN : \E existing \in find_user_instance(instances, user_id, dok) :
        IF user_id = ""
        THEN /\ resp' = Response("allocate", user_id, 401, None, FALSE, "none", FALSE,
                                 dok, None, {})
             /\ agResp' = NoAgResp
             /\ UNCHANGED <<instances, lastAlloc>>
        ELSE IF existing # None /\ instances[existing].state \in ReusableStates
                /\ instances[existing].ip
        THEN /\ resp' = Response("allocate", user_id, 200, existing, TRUE,
                                 instances[existing].state, FALSE, dok, existing, {})
             /\ lastAlloc' = [lastAlloc EXCEPT ![user_id] = existing]
             /\ agResp' = NoAgResp
             /\ UNCHANGED instances
        ELSE IF existing # None /\ instances[existing].state \in StoppedStates
        THEN /\ resp' = Response("allocate", user_id, 200, existing, instances[existing].ip,
                                 instances[existing].state, TRUE, dok, existing, {})
             /\ lastAlloc' = [lastAlloc EXCEPT ![user_id] = existing]
             /\ agResp' = NoAgResp
             /\ UNCHANGED instances
        ELSE \E c \in create_vm(instances, user_id) :
             /\ instances' = c.insts
             /\ agResp' = Probed(c.probe)
             /\ IF c.vm_id = None
                THEN /\ resp' = Response("allocate", user_id, 500, None, FALSE, "none",
                                         FALSE, dok, existing, c.calls)
                     /\ UNCHANGED lastAlloc
                ELSE /\ resp' = Response("allocate", user_id, 200, c.vm_id, TRUE, "running",
                                         FALSE, dok, existing, c.calls)
                     /\ lastAlloc' = [lastAlloc EXCEPT ![user_id] = c.vm_id]

\* the shared body of POST /stop_vm and POST /stop_vm_beacon
StopBody(op, user_id, req_vm_id, code_no_vm) ==
    /\ UNCHANGED offLifecycle
    /\ \E dok \in BOOLEAN : \E inst \in find_user_instance(instances, user_id, dok) :
        IF user_id = ""
        THEN /\ resp' = Response(op, user_id, 401, None, FALSE, "none", FALSE, dok, None, {})
             /\ UNCHANGED <<instances, lastAlloc>>
        ELSE IF inst = None
        THEN /\ resp' = Response(op, user_id, code_no_vm, None, FALSE, "none", FALSE,
                                 dok, None, {})
             /\ lastAlloc' = Forget
             /\ UNCHANGED instances
        ELSE LET vm_id == IF req_vm_id # None THEN req_vm_id ELSE inst IN
             \E r \in AWSManager_stop_vm(instances, vm_id) :
                /\ instances' = r.insts
                /\ lastAlloc' = Forget
                /\ resp' = Response(op, user_id, IF r.ok THEN 200 ELSE 500, vm_id, FALSE,
                                    "none", FALSE, dok, inst, {"stop_instances"})

\* POST /stop_vm
stop_vm(user_id, req_vm_id) == StopBody("stop_vm", user_id, req_vm_id, 404)

\* POST /stop_vm_beacon: no VM is a 200 with a message
stop_vm_beacon(user_id, req_vm_id) == StopBody("stop_vm_beacon", user_id, req_vm_id, 200)

\* POST /start_vm
start_vm(user_id, req_vm_id) ==
    /\ UNCHANGED offLifecycle
    /\ \E dok \in BOOLEAN : \E inst \in find_user_instance(instances, user_id, dok) :
        IF user_id = ""
        THEN /\ resp' = Response("start_vm", user_id, 401, None, FALSE, "none", FALSE,
                                 dok, None, {})
             /\ UNCHANGED <<instances, lastAlloc>>
        ELSE IF inst = None
        THEN /\ resp' = Response("start_vm", user_id, 404, None, FALSE, "none", FALSE,
                                 dok, None, {})
             /\ UNCHANGED <<instances, lastAlloc>>
        ELSE LET vm_id == IF req_vm_id # None THEN req_vm_id ELSE inst IN
             \E r \in AWSManager_start_vm(instances, vm_id) :
                IF ~r.ok
                THEN /\ instances' = r.insts
                     /\ resp' = Response("start_vm", user_id, 500, vm_id, FALSE, "none",
                                         FALSE, dok, inst, {"start_instances"})
                     /\ UNCHANGED lastAlloc
                ELSE \E w \in wait_for_running_and_ip(r.insts, vm_id) :
                     \E services_ok \in wait_for_vm_services :
                        /\ instances' = w.insts
                        /\ resp' = Response("start_vm", user_id,
                                            IF w.ok /\ services_ok THEN 200 ELSE 500,
                                            vm_id, w.ok /\ services_ok,
                                            w.insts[vm_id].state,
                                            FALSE, dok, inst, {"start_instances"})
                        /\ UNCHANGED lastAlloc

\* POST /terminate_vm
terminate_vm(user_id, req_vm_id) ==
    /\ UNCHANGED offLifecycle
    /\ \E dok \in BOOLEAN : \E inst \in find_user_instance(instances, user_id, dok) :
        IF user_id = ""
        THEN /\ resp' = Response("terminate_vm", user_id, 401, None, FALSE, "none", FALSE,
                                 dok, None, {})
             /\ UNCHANGED <<instances, lastAlloc>>
        ELSE IF inst = None
        THEN /\ resp' = Response("terminate_vm", user_id, 404, None, FALSE, "none", FALSE,
                                 dok, None, {})
             /\ lastAlloc' = Forget
             /\ UNCHANGED instances
        ELSE LET vm_id == IF req_vm_id # None THEN req_vm_id ELSE inst IN
             \E r \in AWSManager_terminate_vm(instances, vm_id) :
                /\ instances' = r.insts
                /\ lastAlloc' = Forget
                /\ resp' = Response("terminate_vm", user_id, IF r.ok THEN 200 ELSE 500,
                                    vm_id, FALSE, "none", FALSE, dok, inst,
                                    {"terminate_instances"})

----------------------------------------------------------------------------
(* The backend's own transitions between requests *)

\* a pending instance comes up
EnvRunning(i) ==
    /\ UNCHANGED offLifecycle
    /\ instances[i].state = "pending"
    /\ instances' = [instances EXCEPT ![i].state = "running"]
    /\ resp' = NoResp
    /\ UNCHANGED lastAlloc

\* a pending or running instance is given its public address
EnvAddress(i) ==
    /\ UNCHANGED offLifecycle
    /\ instances[i].state \in {"pending", "running"}
    /\ ~instances[i].ip
    /\ instances' = [instances EXCEPT ![i].ip = TRUE]
    /\ resp' = NoResp
    /\ UNCHANGED lastAlloc

\* a stopping instance reaches stopped and loses its address
EnvStopped(i) ==
    /\ UNCHANGED offLifecycle
    /\ instances[i].state = "stopping"
    /\ instances' = [instances EXCEPT ![i].state = "stopped", ![i].ip = FALSE]
    /\ resp' = NoResp
    /\ UNCHANGED lastAlloc

----------------------------------------------------------------------------
(* The remote agent: src/vm_scripts/vm_server.py *)

JobIds == 1..MaxJobs

IssuedSet == {threads[k].job_id : k \in DOMAIN threads}

\* an id generator that hands out the same value every time
uuid4Repeating == CHOOSE j \in JobIds : \A k \in JobIds : j <= k

\* str(uuid.uuid4()): a value no earlier call returned
uuid4 == CHOOSE j \in JobIds \ IssuedSet : \A k \in JobIds \ IssuedSet : j <= k

\* the record setup_vscode puts into the job table
NewJob == [status |-> "running", message |-> "Starting VSCode setup...", finished_at |-> FALSE]

\* POST /setup_vscode: fields_ok is all four of project/config bucket and key
\* being there, has_deps is deps_s3_bucket and a deps key being there
setup_vscode_route(supplied, fields_ok, has_deps) ==
    IF require_api_key(supplied)
       THEN /\ agResp' = AgResponse("setup_vscode", supplied, 401, None, "Unauthorized")
            /\ UNCHANGED agState
       ELSE IF ~fields_ok
       THEN /\ agResp' = AgResponse("setup_vscode", supplied, 400, None, "Missing S3 bucket/key fields")
            /\ UNCHANGED agState
       ELSE LET job_id == uuid4 IN
            /\ vscode_jobs' = (job_id :> NewJob) @@ vscode_jobs
            /\ threads' = Append(threads, [job_id |-> job_id, has_deps |-> has_deps,
                                           pc |-> "prepare", exc |-> "none",
                                           launch |-> "none"])
            /\ agResp' = AgResponse("setup_vscode", supplied, 200, job_id, "ok")
            /\ UNCHANGED <<deps_freeze, running_tasks, processes, synced_dir, uploaded, exports>>

\* a request to /setup_vscode from a client the model does not follow
setup_vscode(supplied, fields_ok, has_deps) ==
    /\ setup_vscode_route(supplied, fields_ok, has_deps)
    /\ UNCHANGED <<VM_API_KEY, offAgent>>

\* a status handler that answers an unknown id with a fresh pending record
vscode_setup_status_defaulting(job_id) ==
    /\ vscode_jobs' = IF job_id \in DOMAIN vscode_jobs THEN vscode_jobs
                      ELSE (job_id :> [NewJob EXCEPT !.status = "pending"]) @@ vscode_jobs
    /\ agResp' = AgResponse("vscode_setup_status", NoHeader, 200, job_id, vscode_jobs'[job_id])
    /\ UNCHANGED <<threads, deps_freeze, running_tasks, processes, synced_dir, uploaded,
                   exports>>

\* GET /vscode_setup_status/<job_id>: no require_api_key here
vscode_setup_status_route(job_id) ==
    /\ agResp' = IF job_id \in DOMAIN vscode_jobs
                 THEN AgResponse("vscode_setup_status", NoHeader, 200, job_id, vscode_jobs[job_id])
                 ELSE AgResponse("vscode_setup_status", NoHeader, 404, job_id, "job not found")
    /\ UNCHANGED agState

\* a status query from a client the model does not follow
vscode_setup_status(job_id) ==
    /\ vscode_setup_status_route(job_id)
    /\ UNCHANGED <<VM_API_KEY, offAgent>>

\* GET /: the health probe
home_route(supplied) ==
    /\ agResp' = IF require_api_key(supplied)
                 THEN AgResponse("home", supplied, 401, None, "Unauthorized")
                 ELSE AgResponse("home", supplied, 200, None, "Cloud RAM VM API is running!")
    /\ UNCHANGED agState

\* a health probe from a client the model does not follow
home(supplied) ==
    /\ home_route(supplied)
    /\ UNCHANGED <<VM_API_KEY, offAgent>>

----------------------------------------------------------------------------
(* The other mutating endpoints of the agent *)

\* task names a /run_task request can carry ("" is a request without one)
Tasks == {"", "notepad++.exe", "chrome.exe"}

\* sync_notepad_files / sync_specific_file: the files that end up in SYNCED_DIR
\* when `wanted` are downloaded; a failed listing or download is logged only
sync_notepad_files(wanted) == {synced_dir \cup got : got \in SUBSET wanted}

\* POST /run_task.  launch is what the scheduled task led to: the editor
\* executable is missing, tasklist shows its pid, or tasklist shows none.
run_task(supplied, task, launch, pid) ==
    /\ UNCHANGED <<VM_API_KEY, offAgent, vscode_jobs, threads, deps_freeze, uploaded, exports>>
    /\ IF require_api_key(supplied)
       THEN /\ agResp' = AgResponse("run_task", supplied, 401, None, "Unauthorized")
            /\ UNCHANGED <<running_tasks, processes, synced_dir>>
       ELSE IF task = ""
       THEN /\ agResp' = AgResponse("run_task", supplied, 400, None, "Task name required")
            /\ UNCHANGED <<running_tasks, processes, synced_dir>>
       ELSE IF task # "notepad++.exe"
       THEN /\ agResp' = AgResponse("run_task", supplied, 400, None, "Unsupported task")
            /\ UNCHANGED <<running_tasks, processes, synced_dir>>
       ELSE \E dir \in sync_notepad_files(Files) :
            /\ synced_dir' = dir
            /\ IF dir = {}
               THEN /\ agResp' = AgResponse("run_task", supplied, 200, None, "No files found to open")
                    /\ UNCHANGED <<running_tasks, processes>>
               ELSE IF launch = "no_executable"
               THEN /\ agResp' = AgResponse("run_task", supplied, 500, None,
                                            "Notepad++ executable not found")
                    /\ UNCHANGED <<running_tasks, processes>>
               ELSE IF launch = "pid_found"
               THEN \* the key is the pid as tasklist prints it, a string
                    /\ running_tasks' = running_tasks \cup {<<"str", pid>>}
                    /\ processes' = processes \cup {pid}
                    /\ agResp' = AgResponse("run_task", supplied, 200, None, "Launched with files")
               ELSE /\ agResp' = AgResponse("run_task", supplied, 500, None,
                                            "Failed to launch application")
                    /\ UNCHANGED <<running_tasks, processes>>

\* POST /terminate_task.  pid_type is the JSON type of "pid": psutil.Process
\* takes an int and raises TypeError on a string, which Flask answers 500.
terminate_task(supplied, pid_type, pid) ==
    /\ UNCHANGED <<VM_API_KEY, offAgent, vscode_jobs, threads, deps_freeze, synced_dir,
                   uploaded, exports>>
    /\ IF require_api_key(supplied)
       THEN /\ agResp' = AgResponse("terminate_task", supplied, 401, None, "Unauthorized")
            /\ UNCHANGED <<running_tasks, processes>>
       ELSE IF pid = None
       THEN /\ agResp' = AgResponse("terminate_task", supplied, 400, None, "PID required")
            /\ UNCHANGED <<running_tasks, processes>>
       ELSE IF pid_type # "int"
       THEN /\ agResp' = AgResponse("terminate_task", supplied, 500, None, "TypeError")
            /\ UNCHANGED <<running_tasks, processes>>
       ELSE IF pid \notin processes
       THEN /\ agResp' = AgResponse("terminate_task", supplied, 404, None, "Process not found")
            /\ UNCHANGED <<running_tasks, processes>>
       ELSE /\ processes' = processes \ {pid}
            \* running_tasks.pop(pid, None) with the int key
            /\ running_tasks' = running_tasks \ {<<"int", pid>>}
            /\ agResp' = AgResponse("terminate_task", supplied, 200, None, "terminated")

\* POST /sync_notepad_files; file = "" is a request that names none
sync_notepad_files_endpoint(supplied, file) ==
    /\ UNCHANGED <<VM_API_KEY, offAgent, vscode_jobs, threads, deps_freeze, running_tasks,
                   processes, uploaded, exports>>
    /\ IF require_api_key(supplied)
       THEN /\ agResp' = AgResponse("sync_notepad_files", supplied, 401, None, "Unauthorized")
            /\ UNCHANGED synced_dir
       ELSE \E dir \in sync_notepad_files(IF file = "" THEN Files ELSE {file}) :
            /\ synced_dir' = dir
            /\ agResp' = AgResponse("sync_notepad_files", supplied, 200, None,
                                    "Notepad++ files synced with S3")

\* POST /upload_modified_file; file_path = "" is a request without one
upload_modified_file(supplied, file_path) ==
    /\ UNCHANGED <<VM_API_KEY, offAgent, vscode_jobs, threads, deps_freeze, running_tasks,
                   processes, synced_dir, exports>>
    /\ IF require_api_key(supplied)
       THEN /\ agResp' = AgResponse("upload_modified_file", supplied, 401, None, "Unauthorized")
            /\ UNCHANGED uploaded
       ELSE IF file_path = ""
       THEN /\ agResp' = AgResponse("upload_modified_file", supplied, 400, None, "File path required")
            /\ UNCHANGED uploaded
       ELSE IF file_path \notin synced_dir
       THEN /\ agResp' = AgResponse("upload_modified_file", supplied, 404, None, "File not found")
            /\ UNCHANGED uploaded
       ELSE \* upload_to_s3 logs a failed upload and returns
            /\ uploaded' \in {uploaded, uploaded \cup {file_path}}
            /\ agResp' = AgResponse("upload_modified_file", supplied, 200, None, "uploaded")

\* paths are sequences of components; the empty sequence is the empty string
\* base_dir = r"C:\CloudRAM\VSCode\projects"
base_dir == <<"C:", "CloudRAM", "VSCode", "projects">>

\* dir lies below base
Descendant(dir, base) == Len(dir) > Len(base) /\ SubSeq(dir, 1, Len(base)) = base

\* os.path.basename(project_name.rstrip("\\/"))
basename(path) == IF path = <<>> THEN <<>> ELSE <<path[Len(path)]>>

\* os.path.join on Windows: a component with a drive restarts the path
join(a, b) == IF b # <<>> /\ b[1] \in {"C:", "D:"} THEN b ELSE a \o b

\* the directory a path names: ".." leaves the last folder, never the drive
RECURSIVE resolve(_, _)
resolve(seen, rest) ==
    IF rest = <<>> THEN seen
    ELSE IF Head(rest) = ".."
    THEN resolve(IF Len(seen) > 1 THEN SubSeq(seen, 1, Len(seen) - 1) ELSE seen, Tail(rest))
    ELSE resolve(Append(seen, Head(rest)), Tail(rest))

\* project_dir = os.path.join(base_dir, user_id, project_name), as the
\* directory os.path.isdir and os.walk then read
project_dir(user_id, project_name) ==
    resolve(<<>>, join(join(base_dir, user_id), project_name))

\* POST /export_project.  isdir is os.path.isdir(project_dir); outcome is what
\* zipping and uploading came to.
export_project(supplied, user_id, project_name, isdir, outcome) ==
    /\ UNCHANGED <<VM_API_KEY, offAgent, vscode_jobs, threads, deps_freeze, running_tasks,
                   processes, synced_dir, uploaded>>
    /\ IF require_api_key(supplied)
       THEN /\ agResp' = AgResponse("export_project", supplied, 401, None, "Unauthorized")
            /\ UNCHANGED exports
       ELSE IF user_id = <<>> \/ project_name = <<>>
       THEN /\ agResp' = AgResponse("export_project", supplied, 400, None,
                                    "user_id and project_name required")
            /\ UNCHANGED exports
       ELSE IF basename(project_name) = <<>>
       THEN /\ agResp' = AgResponse("export_project", supplied, 400, None, "Invalid project_name")
            /\ UNCHANGED exports
       ELSE IF ~isdir
       THEN /\ agResp' = AgResponse("export_project", supplied, 404, None,
                                    [error |-> "Project not found on VM",
                                     vm_project_dir |->
                                         project_dir(user_id, basename(project_name))])
            /\ UNCHANGED exports
       ELSE IF outcome # "uploaded"
       THEN /\ agResp' = AgResponse("export_project", supplied, 500, None, outcome)
            /\ UNCHANGED exports
       ELSE /\ exports' = exports \cup {[user_id |-> user_id,
                                          project_name |-> basename(project_name),
                                          vm_project_dir |->
                                              project_dir(user_id, basename(project_name))]}
            /\ agResp' = AgResponse("export_project", supplied, 200, None, "export_key")

----------------------------------------------------------------------------
(* The worker thread of one setup job *)

\* where control goes when a statement of the try block raises
OnException == "set_error"

\* whether the two statements after status = "done" can raise: they format a
\* string and read the clock
RaisesAfterDoneToo == {FALSE, TRUE}

RaisesAfterDone == {FALSE}

\* a step of the try block: the message it writes first, if any, and then
\* either the next statement or the exception
Stage(k, message, next, can_raise) ==
    LET t == threads[k] IN
    /\ vscode_jobs' = IF message = "" THEN vscode_jobs
                      ELSE [vscode_jobs EXCEPT ![t.job_id].message = message]
    /\ \/ threads' = [threads EXCEPT ![k].pc = next]
       \/ /\ can_raise
          /\ threads' = [threads EXCEPT ![k].pc = OnException, ![k].exc = t.pc]

\* what install_deps_from_freeze and write_vscode_python_interpreter let out:
\* python -m venv or the check for its python.exe, pip install --upgrade pip,
\* writing .vscode/settings.json.  A failed bulk install falls back to single
\* lines, and a failed line is put on the list of failures
DepsRaises == {"create_venv", "upgrade_pip", "write_interpreter"}

worker(k) ==
    LET t == threads[k]
        j == t.job_id
    IN
    /\ agResp' = NoAgResp
    /\ UNCHANGED <<VM_API_KEY, offAgent, running_tasks, processes, synced_dir, uploaded, exports>>
    /\ \/ /\ t.pc = "prepare"
          /\ Stage(k, "Preparing folders...", "download_project", TRUE)
          /\ UNCHANGED deps_freeze
       \/ /\ t.pc = "download_project"
          /\ Stage(k, "", "download_config", TRUE)
          /\ UNCHANGED deps_freeze
       \/ /\ t.pc = "download_config"
          /\ Stage(k, "", IF t.has_deps THEN "download_deps" ELSE "extract_project", TRUE)
          /\ UNCHANGED deps_freeze
       \/ /\ t.pc = "download_deps"
          /\ Stage(k, "", "extract_project", TRUE)
          /\ deps_freeze' = IF threads'[k].pc = "extract_project" THEN j ELSE deps_freeze
       \/ /\ t.pc = "extract_project"
          /\ Stage(k, "Extracting project...", "apply_config", TRUE)
          /\ UNCHANGED deps_freeze
       \/ /\ t.pc = "apply_config"
          /\ Stage(k, "Applying VSCode config...", "install_extensions", TRUE)
          /\ UNCHANGED deps_freeze
       \/ /\ t.pc = "install_extensions"
          \* install_vscode_extensions_from_file catches everything it can raise
          /\ Stage(k, "Installing extensions...", "install_deps", FALSE)
          /\ UNCHANGED deps_freeze
       \/ /\ t.pc = "install_deps"
          \* os.path.exists(deps_freeze): the file of any job that downloaded one
          /\ IF deps_freeze # None
             THEN /\ vscode_jobs' = [vscode_jobs EXCEPT
                                        ![j].message = "Installing Python packages..."]
                  /\ \/ threads' = [threads EXCEPT ![k].pc = "launch"]
                     \/ \E e \in DepsRaises :
                           threads' = [threads EXCEPT ![k].pc = OnException, ![k].exc = e]
             ELSE Stage(k, "", "launch", FALSE)
          /\ UNCHANGED deps_freeze
       \/ /\ t.pc = "launch"
          \* launch_vscode raises only when running schtasks raises; the exit
          \* status of schtasks /create and /run is logged and not looked at
          /\ vscode_jobs' = [vscode_jobs EXCEPT ![j].message = "Launching VSCode..."]
          /\ \/ \E returncode \in {"scheduled", "refused"} :
                   threads' = [threads EXCEPT ![k].pc = "set_done", ![k].launch = returncode]
             \/ threads' = [threads EXCEPT ![k].pc = OnException, ![k].exc = t.pc]
          /\ UNCHANGED deps_freeze
       \/ /\ t.pc = "set_done"
          /\ vscode_jobs' = [vscode_jobs EXCEPT ![j].status = "done"]
          /\ threads' = [threads EXCEPT ![k].pc = "set_done_message"]
          /\ UNCHANGED deps_freeze
       \/ /\ t.pc = "set_done_message"
          /\ \E raises \in RaisesAfterDone :
                IF raises
                THEN /\ threads' = [threads EXCEPT ![k].pc = OnException, ![k].exc = t.pc]
                     /\ UNCHANGED vscode_jobs
                ELSE /\ vscode_jobs' = [vscode_jobs EXCEPT ![j].message = "VSCode opened"]
                     /\ threads' = [threads EXCEPT ![k].pc = "set_done_finished_at"]
          /\ UNCHANGED deps_freeze
       \/ /\ t.pc = "set_done_finished_at"
          /\ vscode_jobs' = [vscode_jobs EXCEPT ![j].finished_at = TRUE]
          /\ threads' = [threads EXCEPT ![k].pc = "exit"]
          /\ UNCHANGED deps_freeze
       \/ /\ t.pc = "set_error"
          /\ vscode_jobs' = [vscode_jobs EXCEPT ![j].status = "error"]
          /\ threads' = [threads EXCEPT ![k].pc = "set_error_message"]
          /\ UNCHANGED deps_freeze
       \/ /\ t.pc = "set_error_message"
          /\ vscode_jobs' = [vscode_jobs EXCEPT ![j].message = t.exc]
          /\ threads' = [threads EXCEPT ![k].pc = "set_error_finished_at"]
          /\ UNCHANGED deps_freeze
       \/ /\ t.pc = "set_error_finished_at"
          /\ vscode_jobs' = [vscode_jobs EXCEPT ![j].finished_at = TRUE]
          /\ threads' = [threads EXCEPT ![k].pc = "exit"]
          /\ UNCHANGED deps_freeze

AgentFresh ==
    /\ vscode_jobs = <<>>
    /\ threads = <<>>
    /\ deps_freeze = None
    /\ running_tasks = {}
    /\ processes = {}
    /\ synced_dir = {}
    /\ uploaded = {}
    /\ exports = {}
    /\ agResp = NoAgResp

InitAgent ==
    /\ VM_API_KEY \in ApiKeyConfigs
    /\ AgentFresh

----------------------------------------------------------------------------
(* The callers of the agent *)

\* nothing has been unpacked: the destination of the agent is empty
NoCall ==
    [op |-> "none", n |-> 0, listing |-> {}, archive |-> {}, root |-> <<>>,
     tree |-> {}, out |-> {}]

\* keys of the notepad bucket: the basenames of the files
Keys == {"a.txt", "b.txt"}

\* the order list_objects_v2 returns them in
KeyOrder == <<"a.txt", "b.txt">>

\* os.path.join(os.path.expanduser("~/Documents/NotepadSync"), s3_key)
DocsPath(key) == [dir |-> "docs", name |-> key]

\* local paths: a file in a folder of the user's, and the default directory
Paths == {[dir |-> "work", name |-> "a.txt"]} \cup {DocsPath(k) : k \in Keys}

Times == 1..MaxTime

\* no such file, no such object
Absent == 0

\* no entry in last_modified
NoTime == -1

\* the threads that write the tracked set and its record
Threads == {"main", "pull"}

\* before move_task_to_cloud has started the watcher and the periodic sync
ThreadsOff ==
    [main |-> [pc |-> "idle", op |-> "none", arg |-> {}, prev |-> {}, calls |-> 0],
     pull |-> [pc |-> "off", todo |-> <<>>, prev |-> {}, passes |-> 0, log |-> <<>>]]

HandlerOff ==
    [running |-> FALSE, threads |-> 0, observers |-> 0, now |-> 0, events |-> 0,
     last_modified |-> [p \in Paths |-> NoTime],
     storm |-> [p \in Paths |-> [last_event |-> NoTime, uploads |-> 0]],
     saved |-> [p \in Paths |-> 0], sent |-> [p \in Paths |-> 0], failed |-> FALSE]

SyncFresh ==
    /\ tracked_files = {}
    /\ file_record = {}
    /\ local_files = [p \in Paths |-> Absent]
    /\ s3_objects = [k \in Keys |-> Absent]
    /\ thr = ThreadsOff
    /\ handler = HandlerOff

LocalFresh == fcall = NoCall /\ SyncFresh

\* no POST /start_vm has been made
NoStart ==
    [pc |-> "none", n |-> 0, user |-> "", vm_id |-> None, elapsed |-> 0,
     seen |-> <<"none", FALSE>>, attempts |-> 0, trace |-> <<>>, outcome |-> "none"]

----------------------------------------------------------------------------
(* Dependency capture: ProcessManager._make_dep_bundle *)

\* What one call finds on the local machine: requirements.txt exists and can
\* be copied, pyproject.toml exists and poetry export works, pip freeze works,
\* the meta file can be written.
Found ==
    [req : BOOLEAN, copy_ok : BOOLEAN, pyproject : BOOLEAN, export_ok : BOOLEAN,
     freeze_ok : BOOLEAN, meta_ok : BOOLEAN]

\* meta = {"strategy": None, ...}; warning and error are keys that are absent
NoMeta ==
    [strategy |-> "None", warning |-> FALSE, error |-> FALSE, tried |-> <<>>,
     deps_file |-> FALSE, raised |-> FALSE]

\* 1) requirements.txt when it exists, 2) else poetry export when pyproject.toml
\* exists; shutil.copy2 is outside any try
FirstChoice(f) ==
    IF f.req
    THEN IF f.copy_ok
         THEN [NoMeta EXCEPT !.strategy = "requirements.txt", !.deps_file = TRUE,
                             !.tried = <<"requirements.txt">>]
         ELSE [NoMeta EXCEPT !.raised = TRUE, !.tried = <<"requirements.txt">>]
    ELSE IF f.pyproject
    THEN IF f.export_ok
         THEN [NoMeta EXCEPT !.strategy = "poetry_export", !.deps_file = TRUE,
                             !.tried = <<"poetry_export">>]
         ELSE [NoMeta EXCEPT !.strategy = "pyproject_present_but_export_failed",
                             !.warning = TRUE, !.tried = <<"poetry_export">>]
    ELSE NoMeta

\* a fallback condition that forgets the failed export
NeedsPipFreezeOnlyUnset(strategy) == strategy = "None"

\* the condition of the pip freeze fallback
NeedsPipFreeze(strategy) ==
    strategy = "None" \/ strategy = "pyproject_present_but_export_failed"

\* What _make_dep_bundle comes to: raised, or the meta it wrote, with the
\* strategies it tried in order and whether the deps file exists afterwards.
make_dep_bundle(f) ==
    LET m1 == FirstChoice(f)
        m2 == IF m1.raised \/ ~NeedsPipFreeze(m1.strategy) THEN m1
              ELSE IF f.freeze_ok
              THEN [m1 EXCEPT !.strategy = "pip_freeze", !.deps_file = TRUE,
                              !.tried = Append(m1.tried, "pip_freeze")]
              ELSE [m1 EXCEPT !.strategy = "failed", !.error = TRUE,
                              !.tried = Append(m1.tried, "pip_freeze")]
    IN  IF m2.raised \/ f.meta_ok THEN m2 ELSE [m2 EXCEPT !.raised = TRUE]

NoDepCall == [pc |-> "none", found |-> [req |-> FALSE, copy_ok |-> FALSE, pyproject |-> FALSE,
                                        export_ok |-> FALSE, freeze_ok |-> FALSE,
                                        meta_ok |-> FALSE],
              meta |-> NoMeta]

\* one call of _make_dep_bundle runs to its return or its exception
make_dep_bundle_call ==
    /\ dep_call.pc = "called"
    /\ dep_call' = [dep_call EXCEPT !.pc = "finished", !.meta = make_dep_bundle(dep_call.found)]
    /\ UNCHANGED <<lcVars, agVars, runs, clock, st, localVars>>

----------------------------------------------------------------------------
(* The migration engine, ProcessManager.migrate_vscode_project, and the      *)
(* control plane's POST /vscode/setup_on_vm.  Both submit a setup job to the *)
(* agent and poll its status; the engine first packages and uploads.         *)

\* for _ in range(60)
PollAttempts == 60

\* the artifacts of one bundle, in the order they are uploaded
Artifacts == <<"project.zip", "vscode_config.zip", "deps_freeze.txt", "deps_hint.json">>

\* the one owner and the one open project the migrations are about
Owner == "u1"

Project == "app"

NewRun(via, header) ==
    [via |-> via, header |-> header, pc |-> IF via = "engine" THEN "detect" ELSE "submit",
     opened |-> FALSE, stamp |-> None, deps |-> "none", packaged |-> FALSE, uploaded |-> 0,
     killed |-> FALSE, submitted |-> FALSE, job_id |-> None, attempts |-> 0,
     result |-> "none"]

\* the keys a run has put into the bucket:
\* users/{user_id}/projects/{project_name}/{stamp}/<artifact>
KeysOf(run) == {<<Owner, Project, run.stamp, Artifacts[i]>> : i \in 1..run.uploaded}

Return(run, result) == [run EXCEPT !.pc = "returned", !.result = result]

\* a new migration on the local machine, or a new POST /vscode/setup_on_vm with
\* the header _vm_headers() builds; one at a time
StartRun(budget) ==
    /\ Len(runs) < budget
    /\ \A r \in DOMAIN runs : runs[r].pc = "returned"
    /\ \/ runs' = Append(runs, NewRun("engine", NoHeader))
       \/ \E h \in Headers : runs' = Append(runs, NewRun("control_plane", h))
    /\ agResp' = NoAgResp
    /\ UNCHANGED <<lcVars, VM_API_KEY, agState, clock, dep_call, st, localVars>>

\* The clock moves on to the next second.  Only the stamp reads it, so the
\* seconds that pass while no run is on its way to the stamp are taken
\* together with the next one that matters.
Tick(budget) ==
    /\ clock < MaxClock
    /\ \/ Len(runs) < budget /\ \A r \in DOMAIN runs : runs[r].pc = "returned"
       \/ \E r \in DOMAIN runs : runs[r].pc \in {"detect", "zip", "config"}
    /\ clock' = clock + 1
    /\ agResp' = NoAgResp
    /\ UNCHANGED <<lcVars, VM_API_KEY, agState, runs, dep_call, st, localVars>>

\* whether the poll loop has used up its attempts one attempt early
PollBudgetSpentEarly(attempts) == attempts + 1 = PollAttempts

\* whether the poll loop has used up its attempts
PollBudgetSpent(attempts) == attempts = PollAttempts

\* a migration that packages whatever it did or did not detect
NothingDetectedGoOn(run) == [run EXCEPT !.pc = "zip"]

\* if not opened_path: return False, None, "... couldn't detect ..."
NothingDetected(run) == Return(run, "nothing_to_migrate")

\* a migration that goes on after a failed upload
UploadFailedGoOn(run) == [run EXCEPT !.pc = "taskkill"]

\* except Exception as e: return False, opened_path, "S3 upload failed: ..."
UploadFailed(run) == Return(run, "transfer_failed")

\* the local steps of a migration, up to the request to the agent
engine_local(r) ==
    LET run == runs[r] IN
    /\ agResp' = NoAgResp
    /\ UNCHANGED <<lcVars, VM_API_KEY, agState, clock, dep_call, st, localVars>>
    /\ \/ /\ run.pc = "detect"
          \* _detect_vscode_open_path: a path, or (None, None)
          /\ \E opened \in BOOLEAN :
                runs' = [runs EXCEPT ![r] = IF opened THEN [run EXCEPT !.pc = "zip",
                                                                       !.opened = TRUE]
                                            ELSE NothingDetected(run)]
       \/ /\ run.pc = "zip"
          /\ \E ok \in BOOLEAN :
                runs' = [runs EXCEPT ![r] = IF ok THEN [run EXCEPT !.pc = "config",
                                                                   !.packaged = TRUE]
                                            ELSE Return(run, "zip_failed")]
       \/ /\ run.pc = "config"
          \* _collect_vscode_config_bundle returns the zip, returns None without
          \* APPDATA, or raises out of migrate_vscode_project; then the stamp
          /\ \E outcome \in {"zip", "None", "raised"} :
                runs' = [runs EXCEPT ![r] =
                            IF outcome = "zip" THEN [run EXCEPT !.pc = "deps", !.stamp = clock]
                            ELSE IF outcome = "None" THEN Return(run, "config_failed")
                            ELSE Return(run, "raised")]
       \/ /\ run.pc = "deps"
          /\ \E f \in Found :
                LET meta == make_dep_bundle(f) IN
                runs' = [runs EXCEPT ![r] =
                            IF meta.raised THEN Return([run EXCEPT !.deps = "raised"],
                                                       "deps_failed")
                            ELSE [run EXCEPT !.pc = "upload",
                                             !.deps = IF meta.deps_file THEN "captured"
                                                      ELSE "not_captured"]]
       \/ /\ run.pc = "upload"
          \* upload_file raises when S3 refuses and when the local file is not
          \* there: deps.txt exists only when some strategy wrote it
          /\ \E s3_ok \in BOOLEAN :
                LET artifact == Artifacts[run.uploaded + 1]
                    exists == artifact = "deps_freeze.txt" => run.deps = "captured"
                IN  runs' = [runs EXCEPT ![r] =
                        IF ~(s3_ok /\ exists) THEN UploadFailed(run)
                        ELSE [run EXCEPT !.uploaded = run.uploaded + 1,
                                         !.pc = IF run.uploaded + 1 = Len(Artifacts)
                                                THEN "taskkill" ELSE "upload"]]
       \/ /\ run.pc = "taskkill"
          \* taskkill /F /IM Code.exe; its exit status is not looked at
          /\ runs' = [runs EXCEPT ![r] = [run EXCEPT !.pc = "submit", !.killed = TRUE]]

\* POST /setup_vscode: the agent is not reached, or its route answers
engine_submit(r) ==
    LET run == runs[r] IN
    /\ run.pc = "submit"
    /\ UNCHANGED <<lcVars, VM_API_KEY, clock, dep_call, st, localVars>>
    /\ \/ /\ runs' = [runs EXCEPT ![r] = Return([run EXCEPT !.submitted = TRUE], "unreachable")]
          /\ agResp' = NoAgResp
          /\ UNCHANGED agState
       \/ /\ setup_vscode_route(run.header, TRUE, TRUE)
          /\ runs' = [runs EXCEPT ![r] =
                IF agResp'.code # 200
                THEN Return([run EXCEPT !.submitted = TRUE], "agent_rejected")
                ELSE [run EXCEPT !.submitted = TRUE, !.pc = "poll",
                                 !.job_id = agResp'.job_id]]

\* one pass of the poll loop: GET /vscode_setup_status/<job_id>, then the sleep
engine_poll(r) ==
    LET run == runs[r] IN
    /\ run.pc = "poll"
    /\ UNCHANGED <<lcVars, VM_API_KEY, clock, dep_call, st, localVars>>
    /\ \/ /\ runs' = [runs EXCEPT ![r] = Return([run EXCEPT !.attempts = run.attempts + 1],
                                                 "unreachable")]
          /\ agResp' = NoAgResp
          /\ UNCHANGED agState
       \/ /\ vscode_setup_status_route(run.job_id)
          /\ LET polled == [run EXCEPT !.attempts = run.attempts + 1]
                 status == IF agResp'.code = 200 THEN agResp'.body.status ELSE "none"
             IN  runs' = [runs EXCEPT ![r] =
                    IF status = "done" THEN Return(polled, "done")
                    ELSE IF status = "error" THEN Return(polled, "job_error")
                    ELSE IF PollBudgetSpent(polled.attempts) THEN Return(polled, "timeout")
                    ELSE polled]

engine(r) == engine_local(r) \/ engine_submit(r) \/ engine_poll(r)

----------------------------------------------------------------------------
(* Project archives: how they are made (_zip_dir, export_project), how the   *)
(* agent unpacks one and picks the project root, and how the local side      *)
(* unpacks an export.  A file is the sequence of the names on its path.      *)

\* the files a project directory can hold, relative to it; "app" is a
\* subfolder with the name of the project itself
TreePaths == {<<"a.py">>, <<"src", "a.py">>, <<"app", "a.py">>}

Trees == SUBSET TreePaths

\* arcname = os.path.join(base, rel): every file under the folder's own name
zip_dir(folder_name, tree) == {<<folder_name>> \o path : path \in tree}

\* archives with the enclosing folder and archives without it
Archives == {zip_dir(Project, t) : t \in Trees} \cup Trees

\* what extractall leaves at the top of its destination
Top(archive) ==
    {[name |-> path[1], kind |-> IF Len(path) > 1 THEN "dir" ELSE "file"] : path \in archive}

\* normalize_extracted_project_root: items is os.listdir of the destination;
\* listed = FALSE is the listing raising, which the except clause swallows
normalize_extracted_project_root(items, listed) ==
    LET dirs == {x \in items : x.kind = "dir"}
        files == {x \in items : x.kind = "file"}
    IN  IF listed /\ Cardinality(dirs) = 1 /\ Cardinality(files) = 0
        THEN <<"dest", (CHOOSE d \in dirs : TRUE).name>>
        ELSE <<"dest">>

\* shutil.rmtree(dest_project_dir, ignore_errors=True): what is in use stays
rmtree_ignore_errors(listing) == SUBSET listing

\* the worker of a setup job from the removal of the old project directory to
\* the choice of the project root; the directory has just been created and
\* written by the same thread, and its listing is taken to succeed
extract_project(archive) ==
    /\ fcall.n < MaxUnpacks
    /\ \E kept \in rmtree_ignore_errors(fcall.listing) :
          LET listing == kept \cup Top(archive) IN
          fcall' = [fcall EXCEPT !.op = "setup", !.n = fcall.n + 1, !.listing = listing,
                                 !.archive = archive,
                                 !.root = normalize_extracted_project_root(listing, TRUE)]
    /\ UNCHANGED <<lcVars, agVars, engVars, st, syncVars>>

\* any(n.startswith(project_name + "/") for n in names)
has_top_folder(names, project_name) ==
    \E n \in names : Len(n) > 1 /\ n[1] = project_name

\* zf.extractall(local_base) or zf.extractall(target_dir): the files written
extract_export(names, project_name) ==
    IF has_top_folder(names, project_name)
    THEN {<<"local_base">> \o n : n \in names}
    ELSE {<<"local_base", project_name>> \o n : n \in names}

\* save_project_from_vm_to_local from the download on, into a new local_base,
\* for an archive of the project made with or without the enclosing folder
save_project_from_vm_to_local(tree, enclosed) ==
    /\ fcall.n < MaxUnpacks
    /\ LET archive == IF enclosed THEN zip_dir(Project, tree) ELSE tree IN
       fcall' = [fcall EXCEPT !.op = "save", !.n = fcall.n + 1, !.archive = archive,
                              !.tree = tree, !.out = extract_export(archive, Project)]
    /\ UNCHANGED <<lcVars, agVars, engVars, st, syncVars>>

----------------------------------------------------------------------------
(* Notepad++ file sync on the local machine: the tracked-file set and its    *)
(* record, the periodic pull (sync_from_s3) and the file watcher.  The       *)
(* calling thread, the periodic thread and the watcher share tracked_files   *)
(* and notepad_file_paths.txt; the code takes no lock, so the steps of       *)
(* different threads interleave wherever a call blocks on the disk or the    *)
(* network.                                                                  *)

offSync == <<lcVars, agVars, engVars, st, fcall>>

\* a call on the calling thread can start
CallStarts ==
    /\ thr.main.pc = "idle"
    /\ thr.main.calls < MaxCalls

MainAt(pc, op, arg) ==
    [thr EXCEPT !.main.pc = pc, !.main.op = op, !.main.arg = arg,
                !.main.calls = thr.main.calls + 1]

\* add_tracked_file: a file that exists is added, then the record is updated
add_tracked_file(path) ==
    /\ CallStarts
    /\ IF local_files[path] # Absent
       THEN /\ tracked_files' = tracked_files \cup {path}
            /\ thr' = MainAt("persist_read", "add_tracked_file", {path})
       ELSE /\ UNCHANGED tracked_files
            /\ thr' = MainAt("idle", "none", {})
    /\ UNCHANGED <<file_record, local_files, s3_objects, handler, offSync>>

\* remove_tracked_file: a tracked path is removed, then the record is updated
remove_tracked_file(path) ==
    /\ CallStarts
    /\ IF path \in tracked_files
       THEN /\ tracked_files' = tracked_files \ {path}
            /\ thr' = MainAt("persist_read", "remove_tracked_file", {path})
       ELSE /\ UNCHANGED tracked_files
            /\ thr' = MainAt("idle", "none", {})
    /\ UNCHANGED <<file_record, local_files, s3_objects, handler, offSync>>

\* move_task_to_cloud("notepad++.exe", vm_ip, sync_state=True) with the editor
\* running and nothing unsaved: self.tracked_files = set(files_to_track), then
\* the record is updated
move_task_to_cloud(files_to_track) ==
    /\ CallStarts
    /\ tracked_files' = files_to_track
    /\ thr' = MainAt("persist_read", "move_task_to_cloud", files_to_track)
    /\ UNCHANGED <<file_record, local_files, s3_objects, handler, offSync>>

\* _update_tracked_file_list, first half: previous_files is read from the record
update_tracked_file_list_read(t) ==
    /\ thr[t].pc = "persist_read"
    /\ thr' = [thr EXCEPT ![t].prev = file_record, ![t].pc = "persist_write"]
    /\ UNCHANGED <<tracked_files, file_record, local_files, s3_objects, handler, offSync>>

\* _update_tracked_file_list, second half: the union is written to the record
update_tracked_file_list_write(t) ==
    /\ thr[t].pc = "persist_write"
    /\ file_record' = thr[t].prev \cup tracked_files
    /\ thr' = IF t = "pull"
              THEN [thr EXCEPT !.pull.pc = "idle", !.pull.prev = {},
                               !.pull.passes = thr.pull.passes + 1]
              ELSE IF thr.main.op = "move_task_to_cloud"
              THEN [thr EXCEPT !.main.pc = "upload", !.main.prev = {}]
              ELSE [thr EXCEPT !.main.pc = "idle", !.main.prev = {},
                               !.main.op = "none", !.main.arg = {}]
    /\ UNCHANGED <<tracked_files, local_files, s3_objects, handler, offSync>>

\* load_tracked_files: the set a later process reads back from the record
load_tracked_files == file_record

\* what the bucket can hold after the files in `paths` that exist were
\* uploaded under their basenames: an upload can fail, and an uploaded object
\* is not older than the file it was made from
UploadOutcomes(paths) ==
    {f \in [Keys -> {Absent} \cup Times] :
        \A k \in Keys :
            \/ f[k] = s3_objects[k]
            \/ \E p \in paths : /\ p.name = k
                                /\ local_files[p] # Absent
                                /\ f[k] >= local_files[p]}

\* start_notepad_auto_sync on the caller's side: nothing when sync_running is
\* set, otherwise a thread for run_watcher is started
start_notepad_auto_sync(h) ==
    IF h.running THEN h ELSE [h EXCEPT !.threads = h.threads + 1]

\* the rest of move_task_to_cloud: _upload_tracked_files_to_s3, then
\* start_notepad_auto_sync and start_periodic_sync
move_task_to_cloud_uploads ==
    /\ thr.main.pc = "upload"
    /\ s3_objects' \in UploadOutcomes(tracked_files)
    /\ thr' = [thr EXCEPT !.main.pc = "idle", !.main.op = "none", !.main.arg = {},
                          !.pull.pc = IF thr.pull.pc = "off" THEN "idle" ELSE thr.pull.pc]
    /\ handler' = start_notepad_auto_sync(handler)
    /\ UNCHANGED <<tracked_files, file_record, local_files, offSync>>

\* run_watcher in a thread that start_notepad_auto_sync started: the observer
\* is set up and started, then sync_running is set; the thread then sleeps in
\* its loop for the life of the process
run_watcher ==
    /\ handler.observers < handler.threads
    /\ handler' = [handler EXCEPT !.observers = handler.observers + 1, !.running = TRUE]
    /\ UNCHANGED <<tracked_files, file_record, local_files, s3_objects, thr, offSync>>

\* a call of start_notepad_auto_sync by itself
AutoSyncCall(budget) ==
    /\ handler.threads < budget
    /\ handler' = start_notepad_auto_sync(handler)
    /\ UNCHANGED <<tracked_files, file_record, local_files, s3_objects, thr, offSync>>

\* sync_from_s3 up to the loop: get_all_s3_files returns [] when listing fails
sync_from_s3_list ==
    /\ thr.pull.pc = "idle"
    /\ thr.pull.passes < MaxPasses
    /\ \E list_ok \in BOOLEAN :
          LET s3_files == SelectSeq(KeyOrder, LAMBDA k : list_ok /\ s3_objects[k] # Absent) IN
          thr' = IF s3_files = <<>>
                 THEN [thr EXCEPT !.pull.passes = thr.pull.passes + 1, !.pull.log = <<>>]
                 ELSE [thr EXCEPT !.pull.pc = "object", !.pull.todo = s3_files,
                                  !.pull.log = <<>>]
    /\ UNCHANGED <<tracked_files, file_record, local_files, s3_objects, handler, offSync>>

\* a pull that also takes an object as old as the local file
NewerOrSame(s3_mtime, local_mtime) == s3_mtime >= local_mtime

\* if s3_mtime > local_mtime
Newer(s3_mtime, local_mtime) == s3_mtime > local_mtime

\* one pass of the loop of sync_from_s3 over s3_files.  The first tracked path
\* with the key as basename is the match (the set has no fixed order);
\* head_object can raise, which skips the rest of the pass for this key;
\* download_from_s3 returns False instead of raising; a downloaded file is
\* not older than the object
sync_from_s3_object ==
    /\ thr.pull.pc = "object"
    /\ LET s3_key == Head(thr.pull.todo)
           candidates == {p \in tracked_files : p.name = s3_key}
       IN  \E matching_file \in (IF candidates = {} THEN {DocsPath(s3_key)} ELSE candidates) :
           LET existed == local_files[matching_file] # Absent IN
           \E head_ok \in (IF existed THEN BOOLEAN ELSE {TRUE}) :
           LET wanted == IF existed
                         THEN head_ok /\ Newer(s3_objects[s3_key], local_files[matching_file])
                         ELSE TRUE
           IN
           \E download_ok \in (IF wanted THEN BOOLEAN ELSE {FALSE}) :
           \E mtime \in (IF download_ok THEN {t \in Times : t >= s3_objects[s3_key]}
                                         ELSE {local_files[matching_file]}) :
              /\ local_files' = [local_files EXCEPT ![matching_file] = mtime]
              /\ tracked_files' = IF head_ok THEN tracked_files \cup {matching_file}
                                             ELSE tracked_files
              /\ thr' = [thr EXCEPT
                            !.pull.todo = Tail(thr.pull.todo),
                            !.pull.pc = IF Tail(thr.pull.todo) = <<>> THEN "persist_read"
                                                                     ELSE "object",
                            !.pull.log = Append(thr.pull.log,
                                [key |-> s3_key, path |-> matching_file,
                                 counterpart |-> candidates # {}, existed |-> existed,
                                 local_mtime |-> local_files[matching_file],
                                 local_after |-> mtime,
                                 s3_mtime |-> s3_objects[s3_key], head_ok |-> head_ok,
                                 download |-> wanted, download_ok |-> download_ok,
                                 added |-> head_ok /\ matching_file \notin tracked_files,
                                 tracked |-> head_ok \/ matching_file \in tracked_files])]
    /\ UNCHANGED <<file_record, s3_objects, handler, offSync>>

\* current_time - self.last_modified[file_path] < 2
DebounceSeconds == 2

Debounced(last, current_time) == last # NoTime /\ current_time - last < DebounceSeconds

\* the events of one file that follow each other by less than the quiet
\* period, and the calls of sync_specific_file the handler has made for them
StormAfter(storm, current_time, uploads) ==
    LET continuing == storm.last_event # NoTime
                        /\ current_time - storm.last_event < DebounceSeconds
    IN  [last_event |-> current_time,
         uploads |-> (IF continuing THEN storm.uploads ELSE 0) + uploads]

\* NotepadFileEventHandler.on_modified for a file event, with
\* sync_specific_file: the last tracked path with the basename of the event's
\* path is the one synced
on_modified(src_path, budget) ==
    /\ handler.running
    /\ handler.events < budget
    /\ local_files[src_path] # Absent
    /\ LET candidates == {p \in tracked_files : p.name = src_path.name} IN
       IF candidates = {}
       THEN /\ handler' = [handler EXCEPT !.events = handler.events + 1]
            /\ UNCHANGED s3_objects
       ELSE \E file_path \in candidates :
            IF Debounced(handler.last_modified[file_path], handler.now)
            THEN /\ handler' = [handler EXCEPT
                        !.events = handler.events + 1,
                        !.storm[file_path] = StormAfter(handler.storm[file_path],
                                                        handler.now, 0)]
                 /\ UNCHANGED s3_objects
            ELSE /\ handler' = [handler EXCEPT
                        !.events = handler.events + 1,
                        !.last_modified[file_path] = handler.now,
                        !.storm[file_path] = StormAfter(handler.storm[file_path],
                                                        handler.now, 1)]
                 /\ s3_objects' \in UploadOutcomes({file_path})
    /\ UNCHANGED <<tracked_files, file_record, local_files, thr, offSync>>

\* the editor saves a file and the observer delivers the event: on_modified
\* with sync_specific_file, which uploads what has just been written.  saved
\* counts the saves of a file in the session, sent is the save whose content
\* the watcher last put into the bucket, failed records that an upload raised
save(src_path, budget) ==
    /\ handler.running
    /\ handler.events < budget
    /\ local_files[src_path] # Absent
    /\ \E mtime \in {t \in Times : t >= local_files[src_path]} :
       LET candidates == {p \in tracked_files : p.name = src_path.name}
           written == [handler EXCEPT !.events = handler.events + 1,
                                      !.saved[src_path] = handler.saved[src_path] + 1]
       IN  /\ local_files' = [local_files EXCEPT ![src_path] = mtime]
           /\ IF candidates = {}
              THEN handler' = written /\ UNCHANGED s3_objects
              ELSE \E file_path \in candidates :
                   IF Debounced(handler.last_modified[file_path], handler.now)
                   THEN handler' = written /\ UNCHANGED s3_objects
                   ELSE IF local_files'[file_path] = Absent
                   THEN /\ handler' = [written EXCEPT !.last_modified[file_path] = handler.now]
                        /\ UNCHANGED s3_objects
                   ELSE \E ok \in BOOLEAN :
                        /\ handler' = [written EXCEPT
                                !.last_modified[file_path] = handler.now,
                                !.sent[file_path] = IF ok THEN written.saved[file_path]
                                                          ELSE handler.sent[file_path],
                                !.failed = handler.failed \/ ~ok]
                        /\ IF ok
                           THEN \E t \in {u \in Times : u >= local_files'[file_path]} :
                                   s3_objects' = [s3_objects EXCEPT ![file_path.name] = t]
                           ELSE UNCHANGED s3_objects
    /\ UNCHANGED <<tracked_files, file_record, thr, offSync>>

\* a second passes
Elapse ==
    /\ handler.running
    /\ handler.now < MaxNow
    /\ handler' = [handler EXCEPT !.now = handler.now + 1]
    /\ UNCHANGED <<tracked_files, file_record, local_files, s3_objects, thr, offSync>>

----------------------------------------------------------------------------
(* POST /start_vm step by step: start_instances, then one pass of            *)
(* wait_for_running_and_ip or of wait_for_vm_services per step.              *)

\* def wait_for_running_and_ip(self, vm_id, timeout=240)
ReadyTimeout == 240

\* time.sleep(3)
ReadyInterval == 3

\* wait_for_vm_services(ip_address=ip, max_attempts=60)
StartMaxAttempts == 60

\* a wait that takes any running instance as ready
ReadyObservedRunningOnly(state, ip) == state = "running"

\* if state == "running" and ip
ReadyObserved(state, ip) == state = "running" /\ ip

\* a handler that does not look at the result of the wait for the agent
StartStatusIgnoringServices(accepted, ready, healthy) == IF accepted /\ ready THEN 200 ELSE 500

\* the status start_vm answers with once the instance was found: each failed
\* stage raises HTTPException(status_code=500)
StartStatus(accepted, ready, healthy) == IF accepted /\ ready /\ healthy THEN 200 ELSE 500

\* the response of a start request that ends at one of its stages
StartResponse(s, outcome, trace) ==
    LET code == StartStatus("accepted" \in {trace[k] : k \in DOMAIN trace},
                            "ready" \in {trace[k] : k \in DOMAIN trace},
                            "healthy" \in {trace[k] : k \in DOMAIN trace})
    IN  Response("start_vm", s.user, code, s.vm_id, code = 200,
                 IF code = 200 THEN "running" ELSE "none", FALSE, TRUE, None,
                 {"start_instances"})

StartEnds(s, outcome, trace) ==
    [s EXCEPT !.pc = "responded", !.outcome = outcome, !.trace = trace]

\* find_user_instance, the choice of vm_id and AWSManager.start_vm
start_vm_request(user_id, req_vm_id) ==
    /\ st.pc \in {"none", "responded"}
    /\ st.n < MaxStarts
    /\ UNCHANGED <<lastAlloc, agVars, engVars, localVars>>
    /\ \E dok \in BOOLEAN : \E inst \in find_user_instance(instances, user_id, dok) :
        LET s == [NoStart EXCEPT !.n = st.n + 1, !.user = user_id] IN
        IF inst = None
        THEN /\ resp' = Response("start_vm", user_id, 404, None, FALSE, "none", FALSE,
                                 dok, None, {})
             /\ st' = StartEnds(s, "not_found", <<>>)
             /\ UNCHANGED instances
        ELSE LET vm_id == IF req_vm_id # None THEN req_vm_id ELSE inst
                 found == [s EXCEPT !.vm_id = vm_id]
             IN  \E r \in AWSManager_start_vm(instances, vm_id) :
                    /\ instances' = r.insts
                    /\ IF ~r.ok
                       THEN /\ resp' = StartResponse(found, "start_failed", <<>>)
                            /\ st' = StartEnds(found, "start_failed", <<>>)
                       ELSE /\ resp' = NoResp
                            /\ st' = [found EXCEPT !.pc = "await_ready",
                                                   !.trace = <<"accepted">>]

\* get_instance_state_and_ip: what describe_instances shows, or (None, None)
get_instance_state_and_ip(insts, vm_id, describe_ok) ==
    IF describe_ok /\ vm_id \in InstanceIds /\ insts[vm_id].state # "none"
    THEN <<insts[vm_id].state, insts[vm_id].ip>>
    ELSE <<"None", FALSE>>

\* one pass of the loop of wait_for_running_and_ip: the test of the elapsed
\* time, then the describe call, then the return or the sleep; the elapsed
\* time is local to the wait and gone when it returns
wait_for_running_and_ip_step ==
    /\ st.pc = "await_ready"
    /\ UNCHANGED <<instances, lastAlloc, agVars, engVars, localVars>>
    /\ IF ~(st.elapsed < ReadyTimeout)
       THEN /\ resp' = StartResponse(st, "ready_timeout", st.trace)
            /\ st' = StartEnds(st, "ready_timeout", st.trace)
       ELSE \E dok \in BOOLEAN : \E latency \in 0..MaxLatency :
                LET seen == get_instance_state_and_ip(instances, st.vm_id, dok) IN
                /\ resp' = NoResp
                /\ st' = IF ReadyObserved(seen[1], seen[2])
                         THEN [st EXCEPT !.pc = "await_services", !.seen = seen,
                                         !.elapsed = 0,
                                         !.trace = Append(st.trace, "ready")]
                         ELSE [st EXCEPT !.seen = seen,
                                         !.elapsed = st.elapsed + latency + ReadyInterval]

\* one pass of the loop of wait_for_vm_services: a GET / without the key
\* header; no answer (or only 5xx answers until the retries are used up)
\* raises RequestException, which is followed by the sleep
wait_for_vm_services_step ==
    /\ st.pc = "await_services"
    /\ UNCHANGED <<instances, lastAlloc, VM_API_KEY, engVars, localVars>>
    /\ IF st.attempts = StartMaxAttempts
       THEN /\ resp' = StartResponse(st, "services_not_ready", st.trace)
            /\ st' = StartEnds(st, "services_not_ready", st.trace)
            /\ agResp' = NoAgResp
            /\ UNCHANGED agState
       ELSE LET probed == [st EXCEPT !.attempts = st.attempts + 1] IN
            \/ /\ agResp' = NoAgResp
               /\ UNCHANGED agState
               /\ resp' = NoResp
               /\ st' = probed
            \/ /\ home_route(NoHeader)
               /\ IF ProbeSucceeded(agResp'.code)
                  THEN LET trace == Append(st.trace, "healthy") IN
                       /\ resp' = StartResponse(probed, "started", trace)
                       /\ st' = StartEnds(probed, "started", trace)
                  ELSE /\ resp' = NoResp
                       /\ st' = probed

start_vm_step == wait_for_running_and_ip_step \/ wait_for_vm_services_step

----------------------------------------------------------------------------
(* Instance lifecycle controller *)

\* no migration, no setup request and no start request has been made
CallersFresh ==
    /\ runs = <<>>
    /\ clock = 1
    /\ dep_call = NoDepCall
    /\ st = NoStart
    /\ LocalFresh

InitControlPlane ==
    /\ instances = [i \in InstanceIds |-> NoInstance]
    /\ lastAlloc = [u \in UserIds |-> None]
    /\ resp = NoResp
    /\ CallersFresh

InitLifecycle ==
    /\ InitControlPlane
    /\ VM_API_KEY = NoHeader
    /\ AgentFresh

NextLifecycle ==
    \/ \E u \in UserIds : my_vm(u)
    \/ \E u \in UserIds : allocate_ram(u)
    \/ \E u \in UserIds : \E v \in InstanceIds \cup {None} : stop_vm(u, v)
    \/ \E u \in UserIds : \E v \in InstanceIds \cup {None} : stop_vm_beacon(u, v)
    \/ \E u \in UserIds : \E v \in InstanceIds \cup {None} : start_vm(u, v)
    \/ \E u \in UserIds : \E v \in InstanceIds \cup {None} : terminate_vm(u, v)
    \/ \E i \in InstanceIds : EnvRunning(i)
    \/ \E i \in InstanceIds : EnvAddress(i)
    \/ \E i \in InstanceIds : EnvStopped(i)

SpecLifecycle == InitLifecycle /\ [][NextLifecycle]_vars

----------------------------------------------------------------------------
(* Allocation against an agent with or without a shared secret *)

InitAllocate ==
    /\ InitControlPlane
    /\ InitAgent

NextAllocate ==
    \/ \E u \in UserIds : allocate_ram(u)
    \/ \E u \in UserIds : terminate_vm(u, None)
    \/ \E i \in InstanceIds : EnvRunning(i)
    \/ \E i \in InstanceIds : EnvAddress(i)

SpecAllocate == InitAllocate /\ [][NextAllocate]_vars

----------------------------------------------------------------------------
(* Setup jobs on the agent *)

InitJobs ==
    /\ InitControlPlane
    /\ InitAgent

\* a request to /setup_vscode, while the agent has accepted fewer than `budget` jobs
SetupRequest(budget) ==
    /\ Len(threads) < budget
    /\ \E h \in Headers : \E fields_ok, has_deps \in BOOLEAN :
            setup_vscode(h, fields_ok, has_deps)

NextJobs ==
    \/ SetupRequest(MaxJobs)
    \/ \E j \in JobIds : vscode_setup_status(j)
    \/ \E k \in DOMAIN threads : worker(k)

SpecJobs == InitJobs /\ [][NextJobs]_vars

\* every worker thread keeps being scheduled, and the calls it blocks in return
FairJobs == \A k \in 1..MaxJobs : WF_vars(k \in DOMAIN threads /\ worker(k))

SpecJobsFair == InitJobs /\ [][NextJobs]_vars /\ FairJobs

----------------------------------------------------------------------------
(* Every endpoint of the agent *)

\* number of setup jobs accepted while all endpoints are exercised
MaxJobsAllEndpoints == 1

\* what launching can come to; only a supported task gets as far as launching
LaunchOutcomes(task) ==
    IF task = "notepad++.exe" THEN {"no_executable", "pid_found", "no_pid"} ELSE {"no_pid"}

\* what zipping and uploading can come to; only an existing directory is zipped
ExportOutcomes(isdir) ==
    IF isdir THEN {"Zip failed", "S3 upload failed", "uploaded"} ELSE {"uploaded"}

NextAgent ==
    \/ SetupRequest(MaxJobsAllEndpoints)
    \/ \E j \in JobIds : vscode_setup_status(j)
    \/ \E h \in Headers : home(h)
    \/ \E h \in Headers : \E task \in Tasks : \E pid \in Pids :
          \E launch \in LaunchOutcomes(task) : run_task(h, task, launch, pid)
    \/ \E h \in Headers : \E pid \in Pids \cup {None} :
          \E ty \in (IF pid = None THEN {"int"} ELSE {"int", "str"}) : terminate_task(h, ty, pid)
    \/ \E h \in Headers : \E f \in Files \cup {""} : sync_notepad_files_endpoint(h, f)
    \/ \E h \in Headers : \E f \in Files \cup {""} : upload_modified_file(h, f)
    \/ \E h \in Headers : \E u \in {<<>>, <<"u1">>} : \E pn \in {<<>>, <<"app">>} :
          \E isdir \in (IF u = <<>> \/ pn = <<>> THEN {FALSE} ELSE BOOLEAN) :
             \E outcome \in ExportOutcomes(isdir) : export_project(h, u, pn, isdir, outcome)
    \/ \E k \in DOMAIN threads : worker(k)

SpecAgent == InitJobs /\ [][NextAgent]_vars

----------------------------------------------------------------------------
(* Exports asked for with any owner and project name *)

\* user_id of the request body: a plain name, parent-directory components,
\* a path on another drive
OwnerInputs == {<<>>, <<"u1">>, <<"..">>, <<"u1", "..", "..">>, <<"D:", "data">>}

\* project_name of the request body: a plain name, a path, parent directories
ProjectInputs == {<<>>, <<"app">>, <<"x", "app">>, <<"..">>, <<"..", "..", "app">>}

ExportRequest(budget) ==
    /\ Cardinality(exports) < budget
    /\ \E h \in Headers : \E u \in OwnerInputs : \E pn \in ProjectInputs :
          \E isdir \in BOOLEAN : \E outcome \in ExportOutcomes(isdir) :
             export_project(h, u, pn, isdir, outcome)

NextExport == ExportRequest(MaxExports)

----------------------------------------------------------------------------
(* Exports of projects that setup jobs put on the agent *)

\* user_id and project_name of the setup requests
JobOwner == <<"u1">>

JobProject == <<Project>>

\* dest_project_dir = os.path.join(VSCODE_PROJECTS_DIR, project_name)
dest_project_dir(project_name) == base_dir \o project_name

\* the worker has got past unzip(project_zip, dest_project_dir)
Unzipped(k) ==
    \/ threads[k].pc \in {"apply_config", "install_extensions", "install_deps", "launch",
                          "set_done", "set_done_message", "set_done_finished_at"}
    \/ /\ threads[k].pc \in {"set_error", "set_error_message", "set_error_finished_at", "exit"}
       /\ threads[k].exc \notin {"prepare", "download_project", "download_config",
                                 "download_deps", "extract_project"}

\* the worker has got past ensure_dir(VSCODE_PROJECTS_DIR)
Prepared(k) == threads[k].pc # "prepare" /\ threads[k].exc # "prepare"

\* the directories at and below the projects base: the workers are the only
\* code that creates any, and nothing removes a project directory for good
vm_dirs ==
    {base_dir : k \in {i \in DOMAIN threads : Prepared(i)}}
    \cup {dest_project_dir(JobProject) : k \in {i \in DOMAIN threads : Unzipped(i)}}

\* os.path.isdir(project_dir): known at and below the projects base, anything
\* elsewhere on the VM
isdir(dir) ==
    IF dir = base_dir \/ Descendant(dir, base_dir) THEN {dir \in vm_dirs} ELSE BOOLEAN

\* export requests for the owner and the project of the jobs, without an
\* owner, and with parent directories in either field
ExportFromAgent(budget) ==
    /\ Cardinality(exports) < budget
    /\ \E h \in Headers : \E u \in {<<>>, JobOwner, <<"..">>} : \E pn \in {JobProject, <<"..">>} :
          \E found \in isdir(project_dir(u, basename(pn))) :
             \E outcome \in ExportOutcomes(found) : export_project(h, u, pn, found, outcome)

NextRoundTrip ==
    \/ SetupRequest(MaxJobsAllEndpoints)
    \/ \E k \in DOMAIN threads : worker(k)
    \/ ExportFromAgent(MaxExports)

SpecRoundTrip == InitJobs /\ [][NextRoundTrip]_vars

SpecExport == InitJobs /\ [][NextExport]_vars

----------------------------------------------------------------------------
(* Migrations against a live agent *)

NextEngine ==
    \/ StartRun(MaxPolledRuns)
    \/ Tick(MaxPolledRuns)
    \/ \E r \in DOMAIN runs : engine(r)
    \/ \E k \in DOMAIN threads : worker(k)

SpecEngine == InitJobs /\ [][NextEngine]_vars

----------------------------------------------------------------------------
(* Migrations one after the other, against an agent whose workers are slow *)

NextUploads ==
    \/ StartRun(MaxRuns)
    \/ Tick(MaxRuns)
    \/ \E r \in DOMAIN runs : engine(r)

SpecUploads == InitJobs /\ [][NextUploads]_vars

----------------------------------------------------------------------------
(* Start requests followed through their waits *)

\* what an instance id can stand for when a start request arrives: nothing,
\* or an instance of the first user in a state find_user_instance lets through
Startable ==
    {NoInstance}
    \cup {[owner |-> "u1", state |-> s, ip |-> a, launch |-> 1] :
            s \in NonTerminal, a \in BOOLEAN}

InitStart ==
    /\ instances \in [InstanceIds -> Startable]
    /\ \A i \in InstanceIds : instances[i].ip => instances[i].state \in {"pending", "running"}
    /\ lastAlloc = [u \in UserIds |-> None]
    /\ resp = NoResp
    /\ CallersFresh
    /\ InitAgent

NextStart ==
    \/ \E u \in UserIds : \E v \in InstanceIds \cup {None} : start_vm_request(u, v)
    \/ start_vm_step
    \/ \E i \in InstanceIds : EnvRunning(i)
    \/ \E i \in InstanceIds : EnvAddress(i)
    \/ \E i \in InstanceIds : EnvStopped(i)

SpecStart == InitStart /\ [][NextStart]_vars

\* the handler keeps running: every call it blocks in returns
FairStart == WF_vars(start_vm_step)

SpecStartFair == InitStart /\ [][NextStart]_vars /\ FairStart

----------------------------------------------------------------------------
(* Archives unpacked on the agent and on the local machine *)

NextArchives ==
    \/ \E a \in Archives : extract_project(a)
    \/ \E t \in Trees : \E enclosed \in BOOLEAN : save_project_from_vm_to_local(t, enclosed)

SpecArchives == InitJobs /\ [][NextArchives]_vars

----------------------------------------------------------------------------
(* File sync on the local machine: calls, periodic pull and watcher *)

\* ProcessManager() on a machine with no notepad_file_paths.txt yet: the set
\* loaded from it is empty; files and objects from earlier work are there
InitLocal(file_times, object_times) ==
    /\ instances = [i \in InstanceIds |-> NoInstance]
    /\ lastAlloc = [u \in UserIds |-> None]
    /\ resp = NoResp
    /\ VM_API_KEY = NoHeader
    /\ AgentFresh
    /\ runs = <<>>
    /\ clock = 1
    /\ dep_call = NoDepCall
    /\ st = NoStart
    /\ fcall = NoCall
    /\ file_record = {}
    /\ tracked_files = file_record
    /\ local_files \in [Paths -> file_times]
    /\ s3_objects \in [Keys -> object_times]
    /\ thr = ThreadsOff
    /\ handler = HandlerOff

InitSync == InitLocal({Absent} \cup Times, {Absent} \cup Times)

NextSync ==
    \/ \E p \in Paths : add_tracked_file(p)
    \/ \E p \in Paths : remove_tracked_file(p)
    \/ \E files \in SUBSET Paths : move_task_to_cloud(files)
    \/ \E t \in Threads : update_tracked_file_list_read(t)
    \/ \E t \in Threads : update_tracked_file_list_write(t)
    \/ move_task_to_cloud_uploads
    \/ sync_from_s3_list
    \/ sync_from_s3_object

SpecSync == InitSync /\ [][NextSync]_vars

----------------------------------------------------------------------------
(* The file watcher during an editor session *)

NextWatcher ==
    \/ \E files \in SUBSET Paths : move_task_to_cloud(files)
    \/ update_tracked_file_list_read("main")
    \/ update_tracked_file_list_write("main")
    \/ move_task_to_cloud_uploads
    \/ run_watcher
    \/ \E p \in Paths : on_modified(p, MaxStormEvents)
    \/ Elapse

\* the first session: nothing in the bucket yet, files saved before it began
InitWatcher == InitLocal({Absent, 1}, {Absent})

SpecWatcher == InitWatcher /\ [][NextWatcher]_vars

\* one editor session: the migration that starts the watcher, then saves
SessionStart(files) == handler.threads = 0 /\ move_task_to_cloud(files)

NextSaves ==
    \/ \E files \in SUBSET Paths : SessionStart(files)
    \/ update_tracked_file_list_read("main")
    \/ update_tracked_file_list_write("main")
    \/ move_task_to_cloud_uploads
    \/ run_watcher
    \/ \E p \in Paths : save(p, MaxSaves)
    \/ Elapse

SpecSaves == InitWatcher /\ [][NextSaves]_vars

\* the threads of the program get to run and time passes; the user is not
\* bound to start a session or to save again
SpecSavesFair ==
    /\ SpecSaves
    /\ WF_vars(update_tracked_file_list_read("main"))
    /\ WF_vars(update_tracked_file_list_write("main"))
    /\ WF_vars(move_task_to_cloud_uploads)
    /\ WF_vars(run_watcher)
    /\ WF_vars(Elapse)

\* calls that start the watcher, from migrations and by themselves
NextAutoSync ==
    \/ \E files \in SUBSET Paths : move_task_to_cloud(files)
    \/ update_tracked_file_list_read("main")
    \/ update_tracked_file_list_write("main")
    \/ move_task_to_cloud_uploads
    \/ AutoSyncCall(MaxWatcherStarts)
    \/ run_watcher

SpecAutoSync == InitWatcher /\ [][NextAutoSync]_vars

----------------------------------------------------------------------------
(* Dependency capture on every kind of project *)

InitDeps ==
    /\ instances = [i \in InstanceIds |-> NoInstance]
    /\ lastAlloc = [u \in UserIds |-> None]
    /\ resp = NoResp
    /\ VM_API_KEY = NoHeader
    /\ AgentFresh
    /\ runs = <<>>
    /\ clock = 1
    /\ st = NoStart
    /\ LocalFresh
    /\ dep_call \in {[NoDepCall EXCEPT !.pc = "called", !.found = f] : f \in Found}

NextDeps == make_dep_bundle_call

SpecDeps == InitDeps /\ [][NextDeps]_vars

----------------------------------------------------------------------------
(* Claims about the instance lifecycle controller *)

\* C1: in every reachable state each user owns at most one instance whose state
\* is pending, running, stopping or stopped.
C1_OneInstancePerUser ==
    \A u \in UserIds : Cardinality(Matching(instances, u)) <= 1

\* C2: a successful allocate that follows a successful allocate of the same user,
\* with no stop or terminate request between them, returns the instance the
\* earlier one returned and provisions no new instance.
C2_AllocateIdempotent ==
    [][\A u \in UserIds :
        (resp'.op = "allocate" /\ resp'.user = u /\ resp'.code = 200
            /\ lastAlloc[u] # None)
        => (resp'.vm_id = lastAlloc[u] /\ "run_instances" \notin resp'.calls)]_vars

\* C3: what find_user_instance hands to GET /my_vm is never a terminated instance
\* nor one tagged with another user, has the maximum launch time among the
\* user's non-terminated instances, and is absent only when the user has none.
C3_FindInstanceExact ==
    resp.op = "my_vm" =>
        /\ resp.found # None =>
              /\ instances[resp.found].owner = resp.user
              /\ instances[resp.found].state \in NonTerminal
              /\ \A j \in Matching(instances, resp.user) :
                    instances[j].launch <= instances[resp.found].launch
        /\ resp.found = None => Matching(instances, resp.user) = {}

\* C4: when allocate finds the user's instance stopped or stopping it returns
\* that instance with action_required, makes no start, create or terminate call
\* and leaves every instance as it was.
C4_StoppedReturnedUntouched ==
    [][(resp'.op = "allocate" /\ resp'.found # None
            /\ instances[resp'.found].state \in {"stopped", "stopping"})
        => (/\ resp'.code = 200
            /\ resp'.action_required
            /\ resp'.vm_id = resp'.found
            /\ resp'.calls = {}
            /\ instances' = instances)]_vars

\* an allocate has just answered action_required for a stopped instance
C4_Witness ==
    /\ resp.op = "allocate"
    /\ resp.action_required
    /\ resp.vm_id # None
    /\ instances[resp.vm_id].state = "stopped"

\* C5: when the backend query fails during allocate's lookup, allocate reports a
\* failure and provisions nothing.
C5_LookupFailureSurfaced ==
    (resp.op = "allocate" /\ ~resp.describe_ok)
        => (resp.code = 500 /\ "run_instances" \notin resp.calls)

----------------------------------------------------------------------------
(* Claims about the setup jobs of the agent *)

Terminal == {"done", "error"}

\* C6: a job record is created with status running, a running record moves
\* only to done or error, and a record whose status is done or error keeps that
\* status in every later step of any worker or endpoint.
C6_StatusOnlyForward ==
    [][/\ \A j \in DOMAIN vscode_jobs :
            /\ j \in DOMAIN vscode_jobs'
            /\ vscode_jobs[j].status \in Terminal
                  => vscode_jobs'[j].status = vscode_jobs[j].status
            /\ vscode_jobs[j].status = "running"
                  => vscode_jobs'[j].status \in {"running"} \cup Terminal
       /\ \A j \in DOMAIN vscode_jobs' \ DOMAIN vscode_jobs :
            vscode_jobs'[j].status = "running"]_vars

\* one job has ended in error and another in done, both workers at their end
C6_Witness ==
    \E a, b \in DOMAIN threads :
        /\ threads[a].pc = "exit" /\ vscode_jobs[threads[a].job_id].status = "error"
        /\ threads[b].pc = "exit" /\ vscode_jobs[threads[b].job_id].status = "done"

\* the part of C7 about termination: every job in the table eventually has
\* status done or error
C7_NoJobRunsForever ==
    \A j \in JobIds :
        (j \in DOMAIN vscode_jobs)
            ~> (j \in DOMAIN vscode_jobs /\ vscode_jobs[j].status \in Terminal)

\* the part of C7 about failures: a worker that has ended after a stage raised,
\* or after the scheduler refused to launch the editor, has left status error
\* and a message naming the failure
C7_FailureRecorded ==
    \A k \in DOMAIN threads :
        (threads[k].pc = "exit" /\ (threads[k].exc # "none" \/ threads[k].launch = "refused"))
            => /\ vscode_jobs[threads[k].job_id].status = "error"
               /\ vscode_jobs[threads[k].job_id].message \notin {"", "VSCode opened"}

\* C7: every accepted job eventually reaches done or error when its worker keeps
\* being scheduled, and whatever stage (download, extract, apply-config, install,
\* launch) fails, the worker records error with a message.
C7_EveryJobEndsAndFailuresShow ==
    C7_NoJobRunsForever /\ []C7_FailureRecorded

\* C8: a job_id handed out by the setup endpoint has a record in the job table
\* from the moment of the response on, while its worker need not have taken a
\* step; a status query for a handed-out id is never answered not-found; no
\* two submissions get the same id.
C8_JobIdReturnedAtOnce ==
    /\ \A k \in DOMAIN threads : threads[k].job_id \in DOMAIN vscode_jobs
    /\ \A k1, k2 \in DOMAIN threads : k1 # k2 => threads[k1].job_id # threads[k2].job_id
    /\ (agResp.op = "setup_vscode" /\ agResp.code = 200)
          => /\ agResp.job_id \in DOMAIN vscode_jobs
             /\ vscode_jobs[agResp.job_id].status = "running"
             /\ threads[Len(threads)].job_id = agResp.job_id
             /\ threads[Len(threads)].pc = "prepare"
    /\ (agResp.op = "vscode_setup_status" /\ agResp.job_id \in IssuedSet)
          => agResp.code = 200

\* the second submission has just been answered while the first job is finished
C8_Witness ==
    /\ agResp.op = "setup_vscode"
    /\ agResp.code = 200
    /\ Len(threads) = 2
    /\ threads[1].pc = "exit"
    /\ threads[2].pc = "prepare"

\* C9: a status query leaves the job table as it was; for an id that is not in
\* the table it answers 404 and no job status, for an id in the table it
\* answers the record.
C9_StatusQueryPure ==
    [][agResp'.op = "vscode_setup_status"
        => /\ vscode_jobs' = vscode_jobs
           /\ agResp'.job_id \notin DOMAIN vscode_jobs
                 => (agResp'.code = 404 /\ agResp'.body = "job not found")
           /\ agResp'.job_id \in DOMAIN vscode_jobs
                 => (agResp'.code = 200 /\ agResp'.body = vscode_jobs[agResp'.job_id])]_vars

\* an id that was never handed out has been queried while the table holds a job
C9_Witness ==
    /\ agResp.op = "vscode_setup_status"
    /\ agResp.code = 404
    /\ DOMAIN vscode_jobs # {}

----------------------------------------------------------------------------
(* Claims about the shared secret of the agent *)

MutatingEndpoints ==
    {"setup_vscode", "run_task", "terminate_task", "sync_notepad_files",
     "upload_modified_file", "export_project"}

\* C10: with a secret configured, a request to a mutating endpoint whose header
\* is not the secret is answered 401 and changes no job record, thread, file or
\* process of the agent; with no secret configured no request is answered 401.
C10_SecretGuardsMutation ==
    [][/\ (agResp'.op \in MutatingEndpoints /\ VM_API_KEY \notin {NoHeader, ""}
              /\ agResp'.supplied # VM_API_KEY)
          => (agResp'.code = 401 /\ UNCHANGED agState)
       /\ (agResp'.op # "none" /\ VM_API_KEY \in {NoHeader, ""})
          => agResp'.code # 401]_vars

\* a request without the header has just been rejected by an agent that has a
\* job, a running process and synced files to protect
C10_Witness ==
    /\ agResp.op \in MutatingEndpoints
    /\ agResp.code = 401
    /\ agResp.supplied = NoHeader
    /\ threads # <<>>
    /\ processes # {}
    /\ synced_dir # {}

----------------------------------------------------------------------------
(* Claims about dependency capture *)

DefinedStrategies == {"requirements.txt", "poetry_export", "pip_freeze", "failed"}

\* C14: whenever the cascade returns, the recorded strategy is one of existing
\* manifest, exported manifest, installed-package snapshot or failed, never
\* unset; failed comes with an error field; the exported manifest is tried only
\* when there is no existing manifest, and the snapshot only when there is
\* neither manifest or the export failed.
C14_StrategyAlwaysRecorded ==
    (dep_call.pc = "finished" /\ ~dep_call.meta.raised) =>
        LET m == dep_call.meta
            f == dep_call.found
            tried == {m.tried[i] : i \in DOMAIN m.tried}
        IN  /\ m.strategy \in DefinedStrategies
            /\ m.strategy = "failed" => m.error
            /\ "poetry_export" \in tried => ~f.req
            /\ "pip_freeze" \in tried
                  => /\ ~f.req
                     /\ f.pyproject => ("poetry_export" \in tried /\ ~f.export_ok)
            /\ "requirements.txt" \in tried <=> f.req

\* the export failed, the snapshot failed too, and the cascade returned
C14_Witness ==
    /\ dep_call.pc = "finished"
    /\ ~dep_call.meta.raised
    /\ dep_call.meta.tried = <<"poetry_export", "pip_freeze">>
    /\ dep_call.meta.strategy = "failed"

----------------------------------------------------------------------------
(* Claims about the migration engine *)

\* C11: a poll loop makes one status query per attempt and never more than 60;
\* while the agent answers running it keeps polling, and after the 60th such
\* answer it stops with the timeout outcome; no poll writes the job table, so
\* the job is still running when the timeout is reported.
C11_PollStopsAtBudget ==
    [][\A r \in DOMAIN runs :
        (runs[r].pc = "poll" /\ runs'[r] # runs[r]) =>
            LET before == runs[r]
                after == runs'[r]
                answered_running ==
                    /\ agResp'.op = "vscode_setup_status"
                    /\ agResp'.code = 200
                    /\ agResp'.body.status = "running"
            IN  /\ vscode_jobs' = vscode_jobs
                /\ after.attempts = before.attempts + 1
                /\ after.attempts <= PollAttempts
                /\ after.result = "timeout"
                      => /\ after.attempts = PollAttempts
                         /\ vscode_jobs'[after.job_id].status = "running"
                /\ answered_running
                      => IF after.attempts = PollAttempts
                         THEN after.pc = "returned" /\ after.result = "timeout"
                         ELSE after.pc = "poll"]_vars

\* a migration has given up after 60 polls and its job is still running
C11_Witness ==
    \E r \in DOMAIN runs :
        /\ runs[r].via = "engine"
        /\ runs[r].result = "timeout"
        /\ runs[r].attempts = PollAttempts
        /\ vscode_jobs[runs[r].job_id].status = "running"

\* C12: the local editor is terminated only in a migration whose poll has seen
\* the job done: not before the submission, not while the job runs, not when
\* the job ends in error or the poll times out.
C12_KillOnlyAfterDone ==
    \A r \in DOMAIN runs : runs[r].killed => runs[r].result = "done"

\* C13: a migration in which only dependency capture failed (no strategy
\* produced a manifest, or the capture step raised) still uploads the project
\* and configuration archives and submits the job.
C13_CaptureFailureNotFatal ==
    \A r \in DOMAIN runs :
        LET run == runs[r]
            failed_elsewhere ==
                run.result = "transfer_failed"
                    /\ Artifacts[run.uploaded + 1] # "deps_freeze.txt"
        IN  (run.pc = "returned" /\ run.deps \in {"not_captured", "raised"}
                /\ ~failed_elsewhere)
                => (run.uploaded >= 2 /\ run.submitted)

\* C15: two migrations of the same owner and project never write the same
\* object key, however close in time they are.
C15_KeysNeverReused ==
    \A r1, r2 \in DOMAIN runs : r1 # r2 => KeysOf(runs[r1]) \cap KeysOf(runs[r2]) = {}

\* C16: a failed upload ends the migration with the transfer-failed error and
\* without a request to the agent; the job is submitted only after all four
\* artifacts have been uploaded.
C16_NoSubmitWithoutUploads ==
    [][\A r \in DOMAIN runs :
        runs[r].via = "engine" =>
            /\ (runs[r].pc = "upload" /\ runs'[r] # runs[r]
                    /\ runs'[r].uploaded = runs[r].uploaded)
                  => (runs'[r].pc = "returned" /\ runs'[r].result = "transfer_failed")
            /\ runs'[r].result = "transfer_failed" => ~runs'[r].submitted
            /\ runs'[r].submitted => runs'[r].uploaded = Len(Artifacts)]_vars

\* the second upload of a migration has failed
C16_Witness ==
    \E r \in DOMAIN runs :
        /\ runs[r].result = "transfer_failed"
        /\ runs[r].uploaded = 1
        /\ ~runs[r].submitted

\* C17: a migration whose detection finds no open folder or workspace returns
\* the nothing-to-migrate failure in that step, having packaged nothing,
\* uploaded nothing, not terminated the editor and sent nothing to the agent,
\* and does nothing afterwards.
C17_NothingDetectedFailsFast ==
    [][\A r \in DOMAIN runs :
        /\ (runs[r].via = "engine" /\ runs[r].pc = "detect" /\ runs'[r] # runs[r]
                /\ ~runs'[r].opened)
              => /\ runs'[r].pc = "returned"
                 /\ runs'[r].result = "nothing_to_migrate"
                 /\ ~runs'[r].packaged
                 /\ runs'[r].uploaded = 0
                 /\ ~runs'[r].killed
                 /\ ~runs'[r].submitted
                 /\ agState' = agState
                 /\ agResp' = NoAgResp
        /\ runs[r].result = "nothing_to_migrate" => runs'[r] = runs[r]]_vars

\* a migration has returned because nothing was detected
C17_Witness ==
    \E r \in DOMAIN runs :
        /\ runs[r].via = "engine"
        /\ runs[r].result = "nothing_to_migrate"

----------------------------------------------------------------------------
(* Claims about starting an instance *)

\* C18: wait_for_running_and_ip returns only in a pass whose describe call
\* showed the instance running with an address; the only other way out is the
\* timeout failure, raised once the bounded duration has elapsed; every pass
\* that stays in the loop uses up at least the sleep interval, and the wait
\* always comes to an end.
C18_AwaitReadyReturnsOrTimesOut ==
    /\ [][(st.pc = "await_ready" /\ st' # st) =>
            /\ st'.pc \in {"await_ready", "await_services", "responded"}
            /\ st'.pc = "await_services"
                  => /\ st.elapsed < ReadyTimeout
                     /\ instances[st.vm_id].state = "running"
                     /\ instances[st.vm_id].ip
            /\ st'.pc = "responded"
                  => /\ st'.outcome = "ready_timeout"
                     /\ st.elapsed >= ReadyTimeout
            /\ st'.pc = "await_ready"
                  => st'.elapsed >= st.elapsed + ReadyInterval]_vars
    /\ (st.pc = "await_ready") ~> (st.pc # "await_ready")

\* the wait has timed out
C18_Witness ==
    /\ st.pc = "responded"
    /\ st.outcome = "ready_timeout"
    /\ st.elapsed >= ReadyTimeout

\* C19: wait_for_vm_services makes at most max_attempts probes; it returns
\* success in the pass whose probe was answered 200 and only then, returns
\* failure only after the last probe, whether the agent answered 200, another
\* status or not at all, and always comes to an end.
C19_AwaitServicesBounded ==
    /\ [][(st.pc = "await_services" /\ st' # st) =>
            /\ st'.attempts <= StartMaxAttempts
            /\ st'.outcome = "started" <=> (agResp'.op = "home" /\ agResp'.code = 200)
            /\ st'.outcome = "started" => st'.attempts = st.attempts + 1
            /\ (st'.pc = "responded" /\ st'.outcome # "started")
                  => /\ st'.outcome = "services_not_ready"
                     /\ st.attempts = StartMaxAttempts
            /\ st'.pc = "await_services" => st'.attempts = st.attempts + 1]_vars
    /\ (st.pc = "await_services") ~> (st.pc = "responded")

\* the wait has used up all its probes without a 200
C19_Witness ==
    /\ st.pc = "responded"
    /\ st.outcome = "services_not_ready"
    /\ st.attempts = StartMaxAttempts

\* C20: POST /start_vm answers 200 only after start_instances was accepted,
\* then the instance was seen running with an address, then a health probe
\* was answered 200, in this order; a start whose wait for the instance or
\* for the agent failed is answered 500.
C20_StartOrder ==
    [][(st.pc # "responded" /\ st'.pc = "responded") =>
          /\ resp'.op = "start_vm"
          /\ resp'.code = 200 => st'.trace = <<"accepted", "ready", "healthy">>
          /\ st'.outcome \in {"ready_timeout", "services_not_ready"} => resp'.code = 500]_vars

\* a start request has been answered 200
C20_Witness ==
    /\ resp.op = "start_vm"
    /\ resp.code = 200
    /\ st.trace = <<"accepted", "ready", "healthy">>

----------------------------------------------------------------------------
(* Claims about archives *)

\* the root the archive alone calls for: its sole top-level entry when that is
\* a directory, the destination otherwise
RootOf(archive) ==
    IF Cardinality(Top(archive)) = 1 /\ \A x \in Top(archive) : x.kind = "dir"
    THEN <<"dest", (CHOOSE x \in Top(archive) : TRUE).name>>
    ELSE <<"dest">>

\* C21: after a setup job has extracted a project archive, the project root is
\* the archive's sole top-level entry when that entry is a directory and the
\* destination otherwise, so the same archive always gets the same root.
C21_RootFromArchiveAlone ==
    fcall.op = "setup" => fcall.root = RootOf(fcall.archive)

\* C22: unpacking an export of project directory P under a base directory
\* writes exactly the files base/P/<relative path>, once each, whether or not
\* the archive has the enclosing folder P/ and also when P has a subfolder P.
C22_ExportRoundTrip ==
    fcall.op = "save" =>
        fcall.out = {<<"local_base", Project>> \o path : path \in fcall.tree}

----------------------------------------------------------------------------
(* Ownership of the instance a request acts on *)

\* C30: whatever vm_id a stop, beacon stop, start or terminate request
\* carries, the instance handed to the provisioning backend (when there is an
\* instance of that id) carries the ownership tag of the authenticated caller.
C30_ActsOnOwnInstanceOnly ==
    (/\ resp.op \in {"stop_vm", "stop_vm_beacon", "start_vm", "terminate_vm"}
     /\ resp.calls \cap {"stop_instances", "start_instances", "terminate_instances"} # {}
     /\ instances[resp.vm_id].state # "none")
        => instances[resp.vm_id].owner = resp.user

----------------------------------------------------------------------------
(* Best-effort steps of a setup job *)

\* the statements whose failure is the failure of the job: preparing the
\* folders and downloading, extracting, applying the configuration, launching
CoreSteps ==
    {"prepare", "download_project", "download_config", "download_deps",
     "extract_project", "apply_config", "launch"}

\* C28: a setup job is in error only because downloading, extracting,
\* applying the configuration or launching failed; a failure while installing
\* an extension or a dependency line, or while preparing the dependency
\* environment, never puts the job in error.
C28_BestEffortNeverFails ==
    \A k \in DOMAIN threads :
        vscode_jobs[threads[k].job_id].status = "error" => threads[k].exc \in CoreSteps

----------------------------------------------------------------------------
(* File sync on the local machine *)

\* what the pull loop did with the objects of its current pass
Pulled == {thr.pull.log[i] : i \in 1..Len(thr.pull.log)}

InsideUpdate(t) == thr[t].pc \in {"persist_read", "persist_write"}

\* C25: no two threads are at the same time inside a read-modify-write of the
\* tracked-file set and its persisted list.
C25_UpdatesExclusive == Cardinality({t \in Threads : InsideUpdate(t)}) <= 1

\* C26: a path leaves the tracked-file set only in a step of an explicit
\* untrack call for that path; starting a migration, the pull loop and adding
\* a file remove nothing.
C26_OnlyUntrackRemoves ==
    [][\A p \in tracked_files \ tracked_files' :
          thr'.main.op = "remove_tracked_file" /\ thr'.main.arg = {p}]_vars

\* the pull loop has gone through all objects of its pass
PassDone == thr.pull.pc \in {"persist_read", "persist_write", "idle"}

\* C29: after a pass of the pull loop, every object that had no tracked local
\* counterpart has a file in the default directory and that path is tracked,
\* and every path the pass added to the tracked set names a file that exists.
C29_PulledFilesExist ==
    PassDone =>
        \A e \in Pulled :
            /\ ~e.counterpart => /\ e.path = DocsPath(e.key)
                                 /\ e.local_after # Absent
                                 /\ e.tracked
            /\ e.added => e.local_after # Absent

\* C27: a save-storm of a tracked file, a run of modification events each
\* less than 2 seconds after the one before, however long it lasts, makes the
\* watcher upload the file exactly once.
C27_OneUploadPerStorm ==
    \A p \in Paths :
        handler.storm[p].last_event # NoTime => handler.storm[p].uploads = 1

----------------------------------------------------------------------------
(* Exports *)

\* C24: whatever owner and project name the export endpoint is given, the
\* directory the agent archives lies below the projects base directory.
C24_ExportStaysInBase ==
    \A e \in exports : Descendant(e.vm_project_dir, base_dir)

----------------------------------------------------------------------------
(* Allocation and the agent's shared secret *)

\* C31: when the agent is up and has a shared secret configured, the health
\* wait of allocate succeeds: an allocate that created an instance and whose
\* probes the agent answered returns that instance and does not terminate it.
C31_HealthWaitPassesWithSecret ==
    (/\ resp.op = "allocate"
     /\ "run_instances" \in resp.calls
     /\ agResp.op = "home"
     /\ VM_API_KEY \notin {NoHeader, ""})
        => (resp.code = 200 /\ "terminate_instances" \notin resp.calls)

\* C32: an allocate that fails after having created an instance has
\* terminated it: the step leaves no new instance of the user that is not
\* terminated.
C32_FailedAllocateCleansUp ==
    [][(/\ resp'.op = "allocate"
        /\ resp'.code = 500
        /\ "run_instances" \in resp'.calls)
          => \A i \in InstanceIds :
                instances[i].state = "none" => instances'[i].state \in {"none", "terminated"}]_vars

----------------------------------------------------------------------------
(* What a status query can see of a job *)

\* C33: in every answer of a status query, a job whose status is done or
\* error has finished_at set, and a job whose status is running has it unset.
C33_FinishedAtMatchesStatus ==
    (agResp.op = "vscode_setup_status" /\ agResp.code = 200)
        => /\ agResp.body.status \in Terminal => agResp.body.finished_at
           /\ agResp.body.status = "running" => ~agResp.body.finished_at

----------------------------------------------------------------------------
(* Jobs that share the download area of the agent *)

\* the worker of thread k goes through install_deps_from_freeze in this step
InstallsDeps(k) ==
    /\ threads[k].pc = "install_deps"
    /\ threads'[k].pc # "install_deps"
    /\ \/ vscode_jobs'[threads[k].job_id].message = "Installing Python packages..."
       \/ threads'[k].exc \in DepsRaises

\* C34: with two setup jobs running at once, each job uses the artifacts
\* named in its own submission: the dependency manifest a job installs from
\* is the one that job downloaded, never one downloaded by the other job.
C34_OwnArtifactsOnly ==
    [][\A k \in DOMAIN threads :
          (InstallsDeps(k) /\ threads[k].has_deps) => deps_freeze = threads[k].job_id]_vars

\* C35: a job submitted without dependency pointers installs no dependencies,
\* whatever jobs ran on the agent before it: only the worker of a job that
\* was given the pointers goes through the installation.
C35_NoPointersNoInstall ==
    [][\A k \in DOMAIN threads : InstallsDeps(k) => threads[k].has_deps]_vars

----------------------------------------------------------------------------
(* Export after setup *)

JobDone == \E k \in DOMAIN threads : vscode_jobs[threads[k].job_id].status = "done"

\* C36: once a setup job for an owner and a project has reached done, an
\* export request for that owner and project on the same agent finds the
\* project directory: it is not answered with not-found.
C36_ExportFindsSetupProject ==
    (/\ JobDone
     /\ agResp.op = "export_project"
     /\ agResp.code = 404)
        => agResp.body.vm_project_dir # project_dir(JobOwner, JobProject)

----------------------------------------------------------------------------
(* Untracking a file *)

\* the step in which a successful remove_tracked_file call returns
RemoveReturns ==
    /\ thr.main.op = "remove_tracked_file"
    /\ thr.main.pc = "persist_write"
    /\ thr'.main.pc = "idle"

\* C37: when remove_tracked_file(f) has succeeded, f is in neither the
\* in-memory tracked set nor the persisted list, so that loading the list
\* again does not bring f back.
C37_RemovedStaysRemoved ==
    [][RemoveReturns =>
          \A f \in thr.main.arg : f \notin tracked_files' /\ f \notin load_tracked_files']_vars

----------------------------------------------------------------------------
(* Watcher threads *)

\* C39: however many times and however close together
\* start_notepad_auto_sync is called, at most one watcher thread is running.
C39_OneWatcherThread == handler.threads <= 1

----------------------------------------------------------------------------
(* The last save of a session *)

\* the bucket holds an older save of tracked file p than the local file, p
\* being the only tracked file of its name
Behind(p) ==
    /\ p \in tracked_files
    /\ \A q \in tracked_files : q.name = p.name => q = p
    /\ handler.saved[p] > handler.sent[p]

\* C38: after the last modification of a tracked file the watcher eventually
\* uploads that final content: the bucket does not stay behind the local file
\* (short of an upload that failed).
C38_FinalContentUploaded ==
    (\E p \in Paths : Behind(p)) ~> ((\A p \in Paths : ~Behind(p)) \/ handler.failed)
====
